---- MODULE Spec2Model ----
(***************************************************************************)
(* Template replication against a Git-hosting REST API.                    *)
(*                                                                         *)
(* The remote service is modelled as a store of immutable commits and      *)
(* mutable branch references; the clients of the repository are modelled   *)
(* request by request:                                                     *)
(*   eks_*  src/eks_automation/app.py         (Git-data API, requests)     *)
(*   pyg_*  src/template_automation/app.py    (Git-data API, PyGithub)     *)
(*   gh_*   src/template_automation/github_client.py (contents API)        *)
(***************************************************************************)
EXTENDS Integers, Sequences, FiniteSets, TLC

\* ------------------------------------------------------------------ bounds
\* number of write operations one behaviour starts
MaxWrites == 1
\* commits the remote service stores at most
MaxCommits == 6
\* symbols per line in the base64 text the remote service returns
B64LineLen == 4

\* ------------------------------------------------------------- value sets
Branches == {"main", "dev"}
\* the absent branch argument (branch=None)
NoBranch == ""

\* paths as sequences of components
PathA == <<"a.txt">>
PathB == <<"sub", "b.txt">>
PathGit == <<".git", "config">>
PathReadme == <<"README.md">>
\* the configuration file the handler writes (config_file_name)
PathConfig == <<"config.json">>
Paths == {PathA, PathB, PathGit, PathReadme, PathConfig}

\* file contents are byte strings
Bytes1 == <<77, 97, 110>>
Bytes2 == <<255>>
Contents == {Bytes1, Bytes2}
\* the placeholder README's text ("# "), utf-8 encoded
ReadmeBytes == <<35, 32>>
\* the settings as json.dump writes them ("{}")
ConfigBytes == <<123, 125>>
\* marks a path with no file
NoFile == <<-1>>

\* a snapshot: every path holds a content or no file
Tree == [Paths -> Contents \cup {ReadmeBytes, ConfigBytes, NoFile}]
EmptyTree == [p \in Paths |-> NoFile]
FilesOf(t) == {p \in Paths : t[p] # NoFile}
\* the file sets handed to a write: the caller's files, no README and no
\* configuration file
InputTrees ==
    {t \in [Paths -> Contents \cup {NoFile}] :
        t[PathReadme] = NoFile /\ t[PathConfig] = NoFile}

Range(s) == {s[k] : k \in 1..Len(s)}

\* ----------------------------------------------------------------- base64
Pad == 64
Newline == 65

RECURSIVE b64encode(_)
b64encode(b) ==
    IF Len(b) = 0 THEN <<>>
    ELSE IF Len(b) = 1 THEN
        << b[1] \div 4, (b[1] % 4) * 16, Pad, Pad >>
    ELSE IF Len(b) = 2 THEN
        << b[1] \div 4, (b[1] % 4) * 16 + b[2] \div 16, (b[2] % 16) * 4, Pad >>
    ELSE
        << b[1] \div 4, (b[1] % 4) * 16 + b[2] \div 16,
           (b[2] % 16) * 4 + b[3] \div 64, b[3] % 64 >>
        \o b64encode(SubSeq(b, 4, Len(b)))

\* characters outside the alphabet are discarded before decoding
StripNonAlphabet(s) == SelectSeq(s, LAMBDA c : c <= Pad)

RECURSIVE DecodeGroups(_)
DecodeGroups(s) ==
    IF Len(s) < 4 THEN <<>>
    ELSE IF s[3] = Pad THEN
        << s[1] * 4 + s[2] \div 16 >>
    ELSE IF s[4] = Pad THEN
        << s[1] * 4 + s[2] \div 16, (s[2] % 16) * 16 + s[3] \div 4 >>
    ELSE
        << s[1] * 4 + s[2] \div 16, (s[2] % 16) * 16 + s[3] \div 4,
           (s[3] % 4) * 64 + s[4] >>
        \o DecodeGroups(SubSeq(s, 5, Len(s)))

b64decode(s) == DecodeGroups(StripNonAlphabet(s))

\* ------------------------------------------------------------------ utf-8
IsCont(x) == x >= 128 /\ x <= 191

\* bytes.decode('utf-8') succeeds
RECURSIVE utf8_valid(_)
utf8_valid(b) ==
    IF Len(b) = 0 THEN TRUE
    ELSE IF b[1] < 128 THEN utf8_valid(Tail(b))
    ELSE IF b[1] >= 194 /\ b[1] <= 223 THEN
        Len(b) >= 2 /\ IsCont(b[2]) /\ utf8_valid(SubSeq(b, 3, Len(b)))
    ELSE IF b[1] >= 224 /\ b[1] <= 239 THEN
        /\ Len(b) >= 3 /\ IsCont(b[2]) /\ IsCont(b[3])
        /\ (b[1] = 224 => b[2] >= 160)
        /\ (b[1] = 237 => b[2] <= 159)
        /\ utf8_valid(SubSeq(b, 4, Len(b)))
    ELSE IF b[1] >= 240 /\ b[1] <= 244 THEN
        /\ Len(b) >= 4 /\ IsCont(b[2]) /\ IsCont(b[3]) /\ IsCont(b[4])
        /\ (b[1] = 240 => b[2] >= 144)
        /\ (b[1] = 244 => b[2] <= 143)
        /\ utf8_valid(SubSeq(b, 5, Len(b)))
    ELSE FALSE

\* the remote service returns base64 text broken into lines
RECURSIVE WrapLines(_)
WrapLines(s) ==
    IF Len(s) = 0 THEN <<>>
    ELSE IF Len(s) <= B64LineLen THEN s \o <<Newline>>
    ELSE SubSeq(s, 1, B64LineLen) \o <<Newline>>
         \o WrapLines(SubSeq(s, B64LineLen + 1, Len(s)))

\* ------------------------------------------------------------------ state
VARIABLES
    refs,           \* remote: branch -> commit id, 0 when the branch is absent
    commits,        \* remote: sequence of commits, the id is the index
    defaultBranch,  \* remote: the repository's default_branch attribute
    wr,             \* the running write operation: locals and request log
    cloned,         \* the result of the last tree read
    nWrites,        \* write operations started so far
    org,            \* remote: the organisation's repositories, by name
    gr,             \* the running get_repository call: locals and counters
    cb,             \* the running create_branch call
    rd,             \* the result of the last read of a source tree
    lh,             \* the running lambda_handler invocation
    tmpl,           \* remote: the template repository
    rp,             \* the running replication (template_automation)
    rq              \* the last call of _request: response and result

gitVars == <<refs, commits, defaultBranch, wr, cloned, nWrites>>
lifeVars == <<org, gr>>
hVars == <<lh, tmpl, rp, rq>>
opVars == <<cb, rd, hVars>>
vars == <<refs, commits, defaultBranch, wr, cloned, nWrites, org, gr, cb, rd, lh, tmpl, rp, rq>>

\* ------------------------------------------------------- remote service
Commit(t, ps) == [tree |-> t, parents |-> ps]

RECURSIVE Ancestors(_, _)
Ancestors(cs, c) ==
    IF c = 0 THEN {}
    ELSE {c} \cup UNION {Ancestors(cs, p) : p \in Range(cs[c].parents)}

\* the tree a branch shows, the empty one when the branch is absent
BranchTree(b) == IF refs[b] = 0 THEN EmptyTree ELSE commits[refs[b]].tree

\* POST git/blobs: the service decodes the payload and stores the bytes;
\* the blob is addressed by its content
RemoteStoreBlob(encoded) == b64decode(encoded)

\* GET git/blobs/{sha}: content comes back base64-encoded, in lines
RemoteBlobContent(sha) == WrapLines(b64encode(sha))

\* POST git/trees: the given entries laid over the base tree
RemoteCreateTree(items, base) ==
    [p \in Paths |-> IF items[p] # NoFile THEN items[p] ELSE base[p]]

\* PATCH git/refs/heads/{b}: the reference must exist; without force the new
\* commit must descend from the old one
RemoteCanUpdateRef(b, sha, force) ==
    /\ refs[b] # 0
    /\ (force \/ refs[b] \in Ancestors(commits, sha))

\* POST git/refs: refused when the reference exists
RemoteCanCreateRef(b) == refs[b] = 0

\* GET git/trees/{sha}?recursive=1: blob entries and directory entries
RemoteTreeListing(t) ==
    {[path |-> p, type |-> "blob", sha |-> t[p]] : p \in FilesOf(t)}
    \cup {[path |-> SubSeq(p, 1, Len(p) - 1), type |-> "tree", sha |-> NoFile] :
            p \in {q \in FilesOf(t) : Len(q) > 1}}

\* one request of the client: method, resource, whether it was answered with
\* success, and whether the service failed it whatever its state (a fault)
Req(m, r, ok, fault) == [m |-> m, r |-> r, ok |-> ok, fault |-> fault]

\* ------------------------------------------------------- the write locals
WIdle ==
    [op |-> "none", pc |-> "idle", branch |-> NoBranch, target |-> NoBranch,
     files |-> EmptyTree, todo |-> {}, items |-> EmptyTree,
     baseSha |-> 0, hasBase |-> FALSE, baseTree |-> EmptyTree,
     newTree |-> EmptyTree, newCommit |-> 0, ret |-> NoBranch,
     pre |-> [b \in Branches |-> 0], src |-> "ok", nRefChanges |-> 0,
     other |-> 0, otherAfter |-> FALSE, log |-> <<>>]

NoClone == [set |-> FALSE, branch |-> NoBranch, files |-> EmptyTree, raised |-> FALSE,
            resolved |-> FALSE, arg |-> NoBranch, clean |-> FALSE]

\* the repository as found: an initial commit with a README and a second
\* commit adding a file; each branch is absent or at one of the two
Tree1 == [EmptyTree EXCEPT ![PathReadme] = ReadmeBytes]
Tree2 == [EmptyTree EXCEPT ![PathReadme] = ReadmeBytes, ![PathA] = Bytes2]

\* ------------------------------------------- the organisation's repositories
\* "proj" is the repository asked for; "repos" is the name the path
\* /repos/{org}/repos addresses
RepoNames == {"proj", "repos"}

\* a repository of the organisation: whether it exists, its default_branch
\* attribute, whether the default branch has come into existence, and whether
\* an initial commit has been asked for (auto_init, or a first file), and its
\* topics
NoRepository ==
    [exists |-> FALSE, default_branch |-> "main", ready |-> FALSE, init |-> FALSE,
     topics |-> {}]
Repository(d, r) ==
    [exists |-> TRUE, default_branch |-> d, ready |-> r, init |-> r, topics |-> {}]

\* the descriptor a request returns
NoDescriptor == [name |-> "", default_branch |-> ""]

\* the locals of get_repository and what the calls did so far
GIdle ==
    [impl |-> "none", pc |-> "idle", name |-> "", create |-> FALSE, call |-> 0,
     tries |-> 0, repo |-> NoDescriptor, outcome |-> "none",
     first |-> [outcome |-> "none", repo |-> NoDescriptor],
     posts |-> 0, callPosts |-> 0, probes |-> 0, all404 |-> TRUE,
     created |-> FALSE, existed |-> FALSE,
     waited |-> 0, error |-> "none", lookup |-> 0, puts |-> 0,
     team |-> FALSE, perm |-> "none", teamStatus |-> 0, granted |-> FALSE]

\* the locals of create_branch
BIdle ==
    [impl |-> "none", pc |-> "idle", branch_name |-> NoBranch, from_ref |-> NoBranch,
     sha |-> 0, outcome |-> "none", error |-> "none", posts |-> 0,
     pre |-> [b \in Branches |-> 0]]

\* the result of a read of a source tree
NoRead ==
    [impl |-> "none", set |-> FALSE, arg |-> NoBranch, branch |-> NoBranch,
     sha |-> 0, files |-> EmptyTree, raised |-> FALSE, clean |-> FALSE]

\* the locals of lambda_handler and operate_github, and what the invocation
\* has done so far
LIdle ==
    [pc |-> "idle", event |-> "none", outcome |-> "none", status |-> 0,
     error |-> "none", work |-> EmptyTree, branch |-> NoBranch,
     calls |-> 0, posts |-> 0, created |-> FALSE, collided |-> FALSE,
     copyFailed |-> FALSE, pre |-> [b \in Branches |-> 0], missing |-> "none",
     secretCalls |-> 0, existed |-> FALSE]

\* the template repository: whether it exists, its default_branch attribute
\* and the tree at the head of each branch (EmptyTree: no such branch)
NoTemplate ==
    [exists |-> FALSE, default_branch |-> "main",
     heads |-> [b \in Branches |-> EmptyTree]]

\* the locals of a replication
RIdle ==
    [impl |-> "none", pc |-> "idle", trigger |-> FALSE, default |-> NoBranch,
     outcome |-> "none", error |-> "none", pr_url |-> FALSE, log |-> <<>>,
     copied |-> FALSE, pulls |-> <<>>, dispatch |-> 0, dispatched |-> FALSE,
     warned |-> FALSE]

\* no call of _request yet
NoRequest == [set |-> FALSE, status |-> 0, body |-> "none", outcome |-> "none",
              result |-> "none", error |-> 0]

Init ==
    /\ commits = << Commit(Tree1, <<>>), Commit(Tree2, <<1>>) >>
    /\ refs \in [Branches -> 0..2]
    /\ defaultBranch \in Branches
    /\ wr = WIdle
    /\ cloned = NoClone
    /\ nWrites = 0
    /\ org = [n \in RepoNames |-> NoRepository]
    /\ gr = GIdle
    /\ cb = BIdle
    /\ rd = NoRead
    /\ lh = LIdle
    /\ tmpl = NoTemplate
    /\ rp = RIdle
    /\ rq = NoRequest

\* ------------------------- eks_automation: commit_repository_contents
Log(m, r, ok, fault) == Append(wr.log, Req(m, r, ok, fault))

eks_commit_start(branch, files) ==
    /\ wr.pc \in {"idle", "done", "failed"}
    /\ nWrites < MaxWrites
    /\ nWrites' = nWrites + 1
    /\ cloned' = NoClone
    /\ wr' = [WIdle EXCEPT !.op = "eks", !.branch = branch, !.files = files,
                           !.target = branch, !.pre = refs,
                           !.todo = FilesOf(files),
                           !.pc = IF branch = NoBranch THEN "default" ELSE "blobs"]
    /\ UNCHANGED <<refs, commits, defaultBranch, lifeVars, opVars>>

\* target_branch = branch or self.get_default_branch(repo_name), "main" on error
eks_get_default_branch(ok) ==
    /\ wr.op = "eks" /\ wr.pc = "default"
    /\ wr' = [wr EXCEPT !.target = IF ok THEN defaultBranch ELSE "main",
                        !.pc = "blobs",
                        !.log = Log("GET", "repo", ok, ~ok)]
    /\ UNCHANGED <<refs, commits, defaultBranch, lifeVars, opVars, cloned, nWrites>>

\* one file of the os.walk loop: skipped under .git, else uploaded as a blob
eks_create_blob(p, ok) ==
    /\ wr.op = "eks" /\ wr.pc = "blobs"
    /\ p \in wr.todo
    /\ IF ".git" \in Range(p)
       THEN wr' = [wr EXCEPT !.todo = @ \ {p}]
       ELSE IF ok
       THEN wr' = [wr EXCEPT !.todo = @ \ {p},
                             !.items[p] = RemoteStoreBlob(b64encode(wr.files[p])),
                             !.log = Log("POST", "blobs", TRUE, FALSE)]
       ELSE wr' = [wr EXCEPT !.pc = "failed", !.log = Log("POST", "blobs", FALSE, TRUE)]
    /\ UNCHANGED <<refs, commits, defaultBranch, lifeVars, opVars, cloned, nWrites>>

\* base_branch = "main"; get_reference_sha(repo_name, "heads/main")
eks_base_reference(ok) ==
    /\ wr.op = "eks" /\ wr.pc = "blobs" /\ wr.todo = {}
    /\ LET found == ok /\ refs["main"] # 0 IN
       wr' = [wr EXCEPT !.baseSha = IF found THEN refs["main"] ELSE 0,
                        !.pc = IF found THEN "baseCommit" ELSE "tree",
                        !.log = Log("GET", "ref", found, ~ok)]
    /\ UNCHANGED <<refs, commits, defaultBranch, lifeVars, opVars, cloned, nWrites>>

\* get_commit(repo_name, base_commit_sha); base_tree_sha = None on error
eks_base_commit(ok) ==
    /\ wr.op = "eks" /\ wr.pc = "baseCommit"
    /\ wr' = [wr EXCEPT !.hasBase = ok,
                        !.baseTree = IF ok THEN commits[wr.baseSha].tree ELSE EmptyTree,
                        !.pc = "tree",
                        !.log = Log("GET", "commit", ok, ~ok)]
    /\ UNCHANGED <<refs, commits, defaultBranch, lifeVars, opVars, cloned, nWrites>>

\* create_tree(repo_name, tree_items, base_tree_sha)
eks_create_tree(ok) ==
    /\ wr.op = "eks" /\ wr.pc = "tree"
    /\ wr' = IF ok
             THEN [wr EXCEPT !.newTree = RemoteCreateTree(wr.items,
                                   IF wr.hasBase THEN wr.baseTree ELSE EmptyTree),
                             !.pc = "commit",
                             !.log = Log("POST", "trees", TRUE, FALSE)]
             ELSE [wr EXCEPT !.pc = "failed", !.log = Log("POST", "trees", FALSE, TRUE)]
    /\ UNCHANGED <<refs, commits, defaultBranch, lifeVars, opVars, cloned, nWrites>>

\* a commit_repository_contents that never names a parent
eks_parents_none == <<>>

\* the parents handed to create_commit: [base_commit_sha] with a base tree, else []
eks_parents == IF wr.hasBase THEN <<wr.baseSha>> ELSE <<>>

\* create_commit(repo_name, commit_message, new_tree_sha, parents)
eks_create_commit(ok) ==
    /\ wr.op = "eks" /\ wr.pc = "commit"
    /\ Len(commits) < MaxCommits
    /\ IF ok
       THEN /\ commits' = Append(commits, Commit(wr.newTree, eks_parents))
            /\ wr' = [wr EXCEPT !.newCommit = Len(commits) + 1,
                                !.pc = "update",
                                !.log = Log("POST", "commits", TRUE, FALSE)]
       ELSE /\ commits' = commits
            /\ wr' = [wr EXCEPT !.pc = "failed", !.log = Log("POST", "commits", FALSE, TRUE)]
    /\ UNCHANGED <<refs, defaultBranch, lifeVars, opVars, cloned, nWrites>>

\* a last step that writes the base branch's reference
eks_ref_branch_base == "main"

\* the branch whose reference the last step writes: f"heads/{target_branch}"
eks_ref_branch == wr.target

\* a writer that returns its branch argument
eks_return_argument == wr.branch

\* the value commit_repository_contents returns: target_branch
eks_return_value == wr.target

\* an update without force
eks_update_no_force == FALSE

\* update_reference sends "force": True
eks_update_force == TRUE

\* update_reference(repo_name, "heads/<target>", sha): PATCH, "force": True
eks_update_reference(ok) ==
    /\ wr.op = "eks" /\ wr.pc = "update"
    /\ LET done == ok /\ RemoteCanUpdateRef(eks_ref_branch, wr.newCommit, eks_update_force) IN
       /\ refs' = IF done THEN [refs EXCEPT ![eks_ref_branch] = wr.newCommit] ELSE refs
       /\ wr' = [wr EXCEPT !.pc = IF done THEN "done" ELSE "create",
                           !.nRefChanges = IF done THEN @ + 1 ELSE @,
                           !.ret = IF done THEN eks_return_value ELSE NoBranch,
                           !.log = Log("PATCH", "ref", done, ~ok)]
    /\ UNCHANGED <<commits, defaultBranch, lifeVars, opVars, cloned, nWrites>>

\* create_reference(repo_name, "refs/heads/<target>", sha): POST
eks_create_reference(ok) ==
    /\ wr.op = "eks" /\ wr.pc = "create"
    /\ LET done == ok /\ RemoteCanCreateRef(eks_ref_branch) IN
       /\ refs' = IF done THEN [refs EXCEPT ![eks_ref_branch] = wr.newCommit] ELSE refs
       /\ wr' = [wr EXCEPT !.pc = IF done THEN "done" ELSE "failed",
                           !.nRefChanges = IF done THEN @ + 1 ELSE @,
                           !.ret = IF done THEN eks_return_value ELSE NoBranch,
                           !.log = Log("POST", "refs", done, ~ok)]
    /\ UNCHANGED <<commits, defaultBranch, lifeVars, opVars, cloned, nWrites>>

eks_commit_repository_contents ==
    \/ \E b \in Branches \cup {NoBranch}, f \in InputTrees : eks_commit_start(b, f)
    \/ \E ok \in BOOLEAN : eks_get_default_branch(ok)
    \/ \E p \in Paths, ok \in BOOLEAN : eks_create_blob(p, ok)
    \/ \E ok \in BOOLEAN : eks_base_reference(ok)
    \/ \E ok \in BOOLEAN : eks_base_commit(ok)
    \/ \E ok \in BOOLEAN : eks_create_tree(ok)
    \/ \E ok \in BOOLEAN : eks_create_commit(ok)
    \/ \E ok \in BOOLEAN : eks_update_reference(ok)
    \/ \E ok \in BOOLEAN : eks_create_reference(ok)

\* ------------------------ template_automation/app.py: create_commit
\* The changes carry text: only byte strings that are valid UTF-8 can be
\* the content of a change.
pyg_changes == {t \in InputTrees : \A p \in Paths : t[p] = NoFile \/ utf8_valid(t[p])}

pyg_commit_start(branch, changes) ==
    /\ wr.pc \in {"idle", "done", "failed"}
    /\ nWrites < MaxWrites
    /\ nWrites' = nWrites + 1
    /\ cloned' = NoClone
    /\ wr' = [WIdle EXCEPT !.op = "pyg", !.branch = branch, !.files = changes,
                           !.target = branch, !.pre = refs, !.pc = "repo"]
    /\ UNCHANGED <<refs, commits, defaultBranch, lifeVars, opVars>>

\* repo = self.org.get_repo(repo_name)
pyg_get_repo(ok) ==
    /\ wr.op = "pyg" /\ wr.pc = "repo"
    /\ wr' = [wr EXCEPT !.pc = IF ok THEN "ref" ELSE "failed",
                        !.log = Log("GET", "repo", ok, ~ok)]
    /\ UNCHANGED <<refs, commits, defaultBranch, lifeVars, opVars, cloned, nWrites>>

\* ref = repo.get_git_ref("heads/<branch>"); branch_sha = ref.object.sha
pyg_get_git_ref(ok) ==
    /\ wr.op = "pyg" /\ wr.pc = "ref"
    /\ LET found == ok /\ refs[wr.branch] # 0 IN
       wr' = [wr EXCEPT !.baseSha = IF found THEN refs[wr.branch] ELSE 0,
                        !.pc = IF found THEN "baseTree" ELSE "failed",
                        !.log = Log("GET", "ref", found, ~ok)]
    /\ UNCHANGED <<refs, commits, defaultBranch, lifeVars, opVars, cloned, nWrites>>

\* base_tree = repo.get_git_tree(branch_sha)
pyg_get_git_tree(ok) ==
    /\ wr.op = "pyg" /\ wr.pc = "baseTree"
    /\ wr' = [wr EXCEPT !.hasBase = ok,
                        !.baseTree = IF ok THEN commits[wr.baseSha].tree ELSE EmptyTree,
                        !.pc = IF ok THEN "tree" ELSE "failed",
                        !.log = Log("GET", "tree", ok, ~ok)]
    /\ UNCHANGED <<refs, commits, defaultBranch, lifeVars, opVars, cloned, nWrites>>

\* tree = repo.create_git_tree(tree_elements, base_tree), contents inline
pyg_create_git_tree(ok) ==
    /\ wr.op = "pyg" /\ wr.pc = "tree"
    /\ wr' = IF ok
             THEN [wr EXCEPT !.items = wr.files,
                             !.newTree = RemoteCreateTree(wr.files, wr.baseTree),
                             !.pc = "parent",
                             !.log = Log("POST", "trees", TRUE, FALSE)]
             ELSE [wr EXCEPT !.pc = "failed", !.log = Log("POST", "trees", FALSE, TRUE)]
    /\ UNCHANGED <<refs, commits, defaultBranch, lifeVars, opVars, cloned, nWrites>>

\* parent = repo.get_git_commit(branch_sha)
pyg_get_git_commit(ok) ==
    /\ wr.op = "pyg" /\ wr.pc = "parent"
    /\ wr' = [wr EXCEPT !.pc = IF ok THEN "commit" ELSE "failed",
                        !.log = Log("GET", "commit", ok, ~ok)]
    /\ UNCHANGED <<refs, commits, defaultBranch, lifeVars, opVars, cloned, nWrites>>

\* the parents handed to create_git_commit: [parent]
pyg_parents == <<wr.baseSha>>

\* commit = repo.create_git_commit(message, tree, parents=[parent], ...)
pyg_create_git_commit(ok) ==
    /\ wr.op = "pyg" /\ wr.pc = "commit"
    /\ Len(commits) < MaxCommits
    /\ IF ok
       THEN /\ commits' = Append(commits, Commit(wr.newTree, pyg_parents))
            /\ wr' = [wr EXCEPT !.newCommit = Len(commits) + 1,
                                !.pc = "update",
                                !.log = Log("POST", "commits", TRUE, FALSE)]
       ELSE /\ commits' = commits
            /\ wr' = [wr EXCEPT !.pc = "failed", !.log = Log("POST", "commits", FALSE, TRUE)]
    /\ UNCHANGED <<refs, defaultBranch, lifeVars, opVars, cloned, nWrites>>

\* ref.edit(commit.sha, force=True)
pyg_ref_edit(ok) ==
    /\ wr.op = "pyg" /\ wr.pc = "update"
    /\ LET done == ok /\ RemoteCanUpdateRef(wr.target, wr.newCommit, TRUE) IN
       /\ refs' = IF done THEN [refs EXCEPT ![wr.target] = wr.newCommit] ELSE refs
       /\ wr' = [wr EXCEPT !.pc = IF done THEN "done" ELSE "failed",
                           !.nRefChanges = IF done THEN @ + 1 ELSE @,
                           !.log = Log("PATCH", "ref", done, ~ok)]
    /\ UNCHANGED <<commits, defaultBranch, lifeVars, opVars, cloned, nWrites>>

pyg_create_commit ==
    \/ \E b \in Branches, c \in pyg_changes : pyg_commit_start(b, c)
    \/ \E ok \in BOOLEAN : pyg_get_repo(ok)
    \/ \E ok \in BOOLEAN : pyg_get_git_ref(ok)
    \/ \E ok \in BOOLEAN : pyg_get_git_tree(ok)
    \/ \E ok \in BOOLEAN : pyg_create_git_tree(ok)
    \/ \E ok \in BOOLEAN : pyg_get_git_commit(ok)
    \/ \E ok \in BOOLEAN : pyg_create_git_commit(ok)
    \/ \E ok \in BOOLEAN : pyg_ref_edit(ok)

\* ------------- template_automation/github_client.py: clone_repository_contents
\* The source repository as the read finds it: absent, without the source
\* branch, or with a tree at the head of the source branch.
SourceTrees ==
    {t \in [Paths -> Contents \cup {NoFile}] :
        t[PathGit] = NoFile /\ t[PathConfig] = NoFile}
SourceStates == {"norepo", "nobranch", "ok"}

\* the recursive tree listing comes sorted by path
PathOrder == <<PathGit, PathReadme, PathA, PathConfig, PathB>>
FirstOf(todo) ==
    PathOrder[CHOOSE k \in 1..Len(PathOrder) :
                /\ PathOrder[k] \in todo
                /\ \A j \in 1..(k - 1) : PathOrder[j] \notin todo]

\* PUT contents/{path} on a branch: a commit on top of the branch head that
\* sets the one path; on a repository without the branch it is the first commit
RemotePutCommit(b, p, encoded) ==
    Commit([BranchTree(b) EXCEPT ![p] = b64decode(encoded)],
           IF refs[b] = 0 THEN <<>> ELSE <<refs[b]>>)

\* content.replace("\n", "")
strip_newlines(s) == SelectSeq(s, LAMBDA c : c # Newline)

gh_clone_start(target_branch, src, tree) ==
    /\ wr.pc \in {"idle", "done", "failed"}
    /\ nWrites < MaxWrites
    /\ nWrites' = nWrites + 1
    /\ cloned' = NoClone
    /\ wr' = [WIdle EXCEPT !.op = "gh", !.branch = target_branch,
                           !.target = target_branch, !.pre = refs,
                           !.src = src,
                           !.files = IF src = "ok" THEN tree ELSE EmptyTree,
                           !.pc = "srcRepo"]
    /\ UNCHANGED <<refs, commits, defaultBranch, lifeVars, opVars>>

\* source_repo = self.get_repository(source_repo_name)
gh_source_repository(ok) ==
    /\ wr.op = "gh" /\ wr.pc = "srcRepo"
    /\ LET found == ok /\ wr.src # "norepo" IN
       wr' = [wr EXCEPT !.pc = IF found THEN "srcBranch" ELSE "failed",
                        !.log = Log("GET", "repo", found, ~ok)]
    /\ UNCHANGED <<refs, commits, defaultBranch, lifeVars, opVars, cloned, nWrites>>

\* source_branch_info = self.get_branch(source_repo_name, source_branch)
gh_source_branch(ok) ==
    /\ wr.op = "gh" /\ wr.pc = "srcBranch"
    /\ LET found == ok /\ wr.src = "ok" IN
       wr' = [wr EXCEPT !.pc = IF found THEN "srcTree" ELSE "failed",
                        !.log = Log("GET", "branch", found, ~ok)]
    /\ UNCHANGED <<refs, commits, defaultBranch, lifeVars, opVars, cloned, nWrites>>

\* tree_data = GET git/trees/{sha}?recursive=1; files = the blob entries
gh_source_tree(ok) ==
    /\ wr.op = "gh" /\ wr.pc = "srcTree"
    /\ wr' = [wr EXCEPT !.todo = IF ok
                                 THEN {e.path : e \in {x \in RemoteTreeListing(wr.files) :
                                                         x.type = "blob"}}
                                 ELSE {},
                        !.pc = IF ok THEN "tgtBranch" ELSE "failed",
                        !.log = Log("GET", "tree", ok, ~ok)]
    /\ UNCHANGED <<refs, commits, defaultBranch, lifeVars, opVars, cloned, nWrites>>

\* self.get_branch(target_repo_name, target_branch): 404 leads to the README,
\* any other error status ends the clone
gh_target_branch(ok) ==
    /\ wr.op = "gh" /\ wr.pc = "tgtBranch"
    /\ wr' = [wr EXCEPT !.pc = IF ~ok THEN "failed"
                               ELSE IF refs[wr.target] # 0 THEN "files"
                               ELSE "readme",
                        !.log = Log("GET", "branch", ok /\ refs[wr.target] # 0, ~ok)]
    /\ UNCHANGED <<refs, commits, defaultBranch, lifeVars, opVars, cloned, nWrites>>

\* create_readme_file(target_repo_name): PUT contents/README.md, no branch
\* given, so on the default branch; refused when the file is already there
gh_create_readme_file(ok) ==
    /\ wr.op = "gh" /\ wr.pc = "readme"
    /\ Len(commits) < MaxCommits
    /\ LET done == ok /\ BranchTree(defaultBranch)[PathReadme] = NoFile IN
       /\ commits' = IF done
                     THEN Append(commits, RemotePutCommit(defaultBranch, PathReadme,
                                                          b64encode(ReadmeBytes)))
                     ELSE commits
       /\ refs' = IF done THEN [refs EXCEPT ![defaultBranch] = Len(commits) + 1]
                  ELSE refs
       /\ wr' = [wr EXCEPT !.pc = IF done THEN "recheck" ELSE "failed",
                           !.nRefChanges = IF done THEN @ + 1 ELSE @,
                           !.log = Log("PUT", "readme", done, ~ok)]
    /\ UNCHANGED <<defaultBranch, lifeVars, opVars, cloned, nWrites>>

\* a re-check whose failure is logged and not raised: the loop is entered anyway
gh_verify_branch_unraised(ok) ==
    /\ wr.op = "gh" /\ wr.pc = "recheck"
    /\ LET found == ok /\ refs[wr.target] # 0 IN
       wr' = [wr EXCEPT !.pc = "files",
                        !.log = Log("GET", "branch", found, ~ok)]
    /\ UNCHANGED <<refs, commits, defaultBranch, lifeVars, opVars, cloned, nWrites>>

\* the second self.get_branch(target_repo_name, target_branch)
gh_verify_branch(ok) ==
    /\ wr.op = "gh" /\ wr.pc = "recheck"
    /\ LET found == ok /\ refs[wr.target] # 0 IN
       wr' = [wr EXCEPT !.pc = IF found THEN "files" ELSE "failed",
                        !.log = Log("GET", "branch", found, ~ok)]
    /\ UNCHANGED <<refs, commits, defaultBranch, lifeVars, opVars, cloned, nWrites>>

\* the requests of one turn of the copy loop, in order, up to the first that fails
gh_file_log(fault, exists) ==
    IF fault = "get" THEN << Req("GET", "srcfile", FALSE, TRUE) >>
    ELSE IF fault = "check" THEN
        << Req("GET", "srcfile", TRUE, FALSE), Req("GET", "tgtfile", FALSE, TRUE) >>
    ELSE << Req("GET", "srcfile", TRUE, FALSE), Req("GET", "tgtfile", exists, FALSE),
            Req("PUT", "file", fault = "none", fault # "none") >>

\* one turn of "for file_item in files": paths under .git/ are passed over;
\* the file is read from the source, looked up in the target and written with
\* PUT contents/{path}; an error in any of the three is logged and the loop goes on
gh_copy_file(fault) ==
    /\ wr.op = "gh" /\ wr.pc = "files" /\ wr.todo # {}
    /\ Len(commits) < MaxCommits
    /\ LET p == FirstOf(wr.todo)
           content == strip_newlines(WrapLines(b64encode(wr.files[p])))
           exists == BranchTree(wr.target)[p] # NoFile
           put == fault = "none" /\ refs[wr.target] # 0
       IN IF p[1] = ".git"
          THEN /\ wr' = [wr EXCEPT !.todo = @ \ {p}]
               /\ UNCHANGED <<refs, commits>>
          ELSE /\ commits' = IF put
                             THEN Append(commits, RemotePutCommit(wr.target, p, content))
                             ELSE commits
               /\ refs' = IF put THEN [refs EXCEPT ![wr.target] = Len(commits) + 1]
                          ELSE refs
               /\ wr' = [wr EXCEPT !.todo = @ \ {p},
                                   !.nRefChanges = IF put THEN @ + 1 ELSE @,
                                   !.log = wr.log \o gh_file_log(fault, exists)]
    /\ UNCHANGED <<defaultBranch, lifeVars, opVars, cloned, nWrites>>

\* the loop is over: "Successfully cloned all files", return
gh_clone_return ==
    /\ wr.op = "gh" /\ wr.pc = "files" /\ wr.todo = {}
    /\ wr' = [wr EXCEPT !.pc = "done"]
    /\ UNCHANGED <<refs, commits, defaultBranch, lifeVars, opVars, cloned, nWrites>>

gh_clone_repository_contents ==
    \/ \E b \in Branches, src \in SourceStates, t \in SourceTrees : gh_clone_start(b, src, t)
    \/ \E ok \in BOOLEAN : gh_source_repository(ok)
    \/ \E ok \in BOOLEAN : gh_source_branch(ok)
    \/ \E ok \in BOOLEAN : gh_source_tree(ok)
    \/ \E ok \in BOOLEAN : gh_target_branch(ok)
    \/ \E ok \in BOOLEAN : gh_create_readme_file(ok)
    \/ \E ok \in BOOLEAN : gh_verify_branch(ok)
    \/ \E fault \in {"none", "get", "check", "put"} : gh_copy_file(fault)
    \/ gh_clone_return

\* -------------------------- eks_automation: clone_repository_contents
\* The faults of one read: which of its requests the service fails.
ReadFaults ==
    {[kind |-> k, blobs |-> {}] : k \in {"none", "default", "ref", "tree"}}
    \cup {[kind |-> "blobs", blobs |-> {p}] : p \in Paths}

\* a download that writes the payload as received, still encoded
download_undecoded(listing, failed) ==
    [p \in Paths |->
        IF /\ \E e \in listing : e.path = p /\ e.type = "blob"
           /\ p \notin failed
        THEN RemoteBlobContent(
                 (CHOOSE e \in listing : e.path = p /\ e.type = "blob").sha)
        ELSE NoFile]

\* download_repository_files: blob entries only; a blob whose GET does not
\* answer 200 is passed over; base64 content is decoded
download_repository_files(listing, failed) ==
    [p \in Paths |->
        IF /\ \E e \in listing : e.path = p /\ e.type = "blob"
           /\ p \notin failed
        THEN b64decode(RemoteBlobContent(
                 (CHOOSE e \in listing : e.path = p /\ e.type = "blob").sha))
        ELSE NoFile]

\* the branch whose reference the read resolves, when it gets that far
eks_clone_branch(branch) == IF branch # NoBranch THEN branch ELSE defaultBranch

\* clone_repository_contents(source_repo, target_dir, branch) into an empty
\* directory; the result is the branch name returned and the directory
eks_clone_result(branch, f) ==
    LET b == eks_clone_branch(branch)
        resolved == /\ ~(branch = NoBranch /\ f.kind = "default")
                    /\ f.kind # "ref"
                    /\ refs[b] # 0
    IN  IF ~resolved
        THEN [set |-> TRUE, branch |-> IF branch # NoBranch THEN branch ELSE "main",
              files |-> EmptyTree, raised |-> FALSE, resolved |-> FALSE,
              arg |-> branch, clean |-> f.kind = "none"]
        ELSE IF f.kind = "tree"
        THEN [set |-> TRUE, branch |-> NoBranch, files |-> EmptyTree,
              raised |-> TRUE, resolved |-> TRUE, arg |-> branch, clean |-> FALSE]
        ELSE [set |-> TRUE, branch |-> b,
              files |-> download_repository_files(
                            RemoteTreeListing(commits[refs[b]].tree), f.blobs),
              raised |-> FALSE, resolved |-> TRUE, arg |-> branch,
              clean |-> f.kind = "none"]

eks_clone_repository_contents ==
    \E branch \in Branches \cup {NoBranch}, f \in ReadFaults :
        /\ wr.pc \in {"idle", "done"}
        /\ wr.op \in {"none", "eks", "pyg"}
        /\ ~cloned.set
        /\ cloned' = eks_clone_result(branch, f)
        /\ UNCHANGED <<refs, commits, defaultBranch, lifeVars, opVars, wr, nWrites>>

Next ==
    \/ eks_commit_repository_contents
    \/ pyg_create_commit
    \/ gh_clone_repository_contents
    \/ eks_clone_repository_contents

Spec == Init /\ [][Next]_vars

\* =================================================== repository lifecycle
\* attempts of the initialization wait: max_retries in eks_automation and in
\* template_automation/app.py, range(3) in github_client.py
eks_max_retries == 100
pyg_max_retries == 100
gh_probe_attempts == 3

\* seconds slept after a failed probe (retry_delay, time.sleep(2)) and, in
\* github_client.py, after the README was written
eks_retry_delay == 1
pyg_retry_delay == 1
gh_retry_delay == 2
gh_init_delay == 2

\* GET /repos/{org}/{n}
RemoteDescriptor(n) == [name |-> n, default_branch |-> org[n].default_branch]
RemoteStatus(present, fault) == IF fault THEN 500 ELSE IF present THEN 200 ELSE 404

\* a branch of a repository: after its initial commit a repository has its
\* default branch and no other
RemoteBranchExists(n, b) ==
    /\ org[n].exists
    /\ org[n].ready
    /\ org[n].default_branch = b

\* the service carries out a requested initial commit some time after the
\* request: the default branch comes into existence
remote_materialise ==
    \E n \in RepoNames :
        /\ org[n].exists
        /\ org[n].init
        /\ ~org[n].ready
        /\ org' = [org EXCEPT ![n].ready = TRUE]
        /\ UNCHANGED <<gitVars, opVars, gr>>

\* the implementations that take an owning_team
TakesTeam(impl) == impl \in {"pyg", "gh"}

\* a call of get_repository begins; a second call repeats the first one's
\* arguments once the first has ended
get_repository_call ==
    \/ \E impl \in {"eks", "pyg", "gh"}, name \in RepoNames, create \in BOOLEAN,
          team \in BOOLEAN :
        /\ gr.pc = "idle"
        /\ team => TakesTeam(impl)
        /\ gr' = [GIdle EXCEPT !.impl = impl, !.pc = "get", !.name = name,
                               !.create = create, !.call = 1, !.team = team,
                               !.existed = org[name].exists]
        /\ UNCHANGED <<gitVars, opVars, org>>
    \/ /\ gr.pc = "done"
       /\ gr.call = 1
       /\ gr' = [GIdle EXCEPT !.impl = gr.impl, !.pc = "get", !.name = gr.name,
                              !.create = gr.create, !.call = 2, !.team = gr.team,
                              !.existed = gr.existed, !.posts = gr.posts,
                              !.first = [outcome |-> gr.outcome, repo |-> gr.repo]]
       /\ UNCHANGED <<gitVars, opVars, org>>

\* the call ends: it returns a descriptor or raises
Finish(g, outcome, repo) == [g EXCEPT !.pc = "done", !.outcome = outcome, !.repo = repo]

\* the call ends with an error of the given kind
Raise(g, error) == [Finish(g, "raised", NoDescriptor) EXCEPT !.error = error]

\* the error a failed lookup is reported with by the clients that pass the
\* HTTP error on
HttpError(status) == IF status = 404 THEN "not_found" ELSE "http_error"

\* one more failed probe, and the sleep after it
Probed(g, status, delay) ==
    [g EXCEPT !.tries = @ + 1, !.probes = @ + 1,
              !.all404 = @ /\ status = 404,
              !.waited = @ + delay]

\* POST /orgs/{org}/repos answered with success: the repository exists, with
\* the default_branch the service gives it
RemoteCreate(n, d, auto_init) ==
    [org EXCEPT ![n] = [exists |-> TRUE, default_branch |-> d,
                        ready |-> FALSE, init |-> auto_init, topics |-> {}]]

\* the POST is refused when the service fails it or the name is taken
RemoteCanCreate(n, fault) == ~fault /\ ~org[n].exists

\* ------------------------------------------- eks_automation: get_repository
\* a lookup that creates on 404 whatever the create argument
eks_repo_get_creating(fault) ==
    /\ gr.impl = "eks"
    /\ gr.pc = "get"
    /\ LET status == RemoteStatus(org[gr.name].exists, fault) IN
        gr' = IF status = 200
              THEN [Finish(gr, "returned", RemoteDescriptor(gr.name)) EXCEPT
                        !.lookup = status]
              ELSE IF status = 404 THEN [gr EXCEPT !.pc = "post", !.lookup = status]
              ELSE [Raise(gr, "not_found") EXCEPT !.lookup = status]
    /\ UNCHANGED <<gitVars, opVars, org>>

\* the lookup; every status other than 200, and 404 with create, raises
\* "Repository ... not found and create=False"
eks_repo_get(fault) ==
    /\ gr.impl = "eks"
    /\ gr.pc = "get"
    /\ LET status == RemoteStatus(org[gr.name].exists, fault) IN
        gr' = IF status = 200
              THEN [Finish(gr, "returned", RemoteDescriptor(gr.name)) EXCEPT
                        !.lookup = status]
              ELSE IF status = 404 /\ gr.create
              THEN [gr EXCEPT !.pc = "post", !.lookup = status]
              ELSE [Raise(gr, "not_found") EXCEPT !.lookup = status]
    /\ UNCHANGED <<gitVars, opVars, org>>

eks_repo_post(fault, d) ==
    /\ gr.impl = "eks"
    /\ gr.pc = "post"
    /\ IF ~RemoteCanCreate(gr.name, fault)
       THEN /\ gr' = [Raise(gr, "create_failed") EXCEPT
                        !.posts = @ + 1, !.callPosts = @ + 1]
            /\ UNCHANGED org
       ELSE /\ org' = RemoteCreate(gr.name, d, TRUE)
            /\ gr' = [gr EXCEPT !.pc = "probe", !.tries = 0, !.created = TRUE,
                                !.repo = [name |-> gr.name, default_branch |-> d],
                                !.posts = @ + 1, !.callPosts = @ + 1]
    /\ UNCHANGED <<gitVars, opVars>>

\* a wait loop that removes the repository when it gives up
eks_repo_probe_cleanup(fault) ==
    /\ gr.impl = "eks"
    /\ gr.pc = "probe"
    /\ gr.tries < eks_max_retries
    /\ LET status == RemoteStatus(RemoteBranchExists(gr.name, "main"), fault) IN
        /\ gr' = IF status = 200
                 THEN [Finish(gr, "returned", gr.repo) EXCEPT !.probes = @ + 1,
                                                              !.all404 = FALSE]
                 ELSE IF gr.tries + 1 = eks_max_retries
                 THEN [Finish(Probed(gr, status, eks_retry_delay), "timeout", NoDescriptor)
                          EXCEPT !.error = "timeout"]
                 ELSE Probed(gr, status, eks_retry_delay)
        /\ org' = IF status # 200 /\ gr.tries + 1 = eks_max_retries
                  THEN [org EXCEPT ![gr.name] = NoRepository]
                  ELSE org
    /\ UNCHANGED <<gitVars, opVars>>

\* one pass of the wait loop: get_reference_sha(repo_name, "heads/main")
eks_repo_probe(fault) ==
    /\ gr.impl = "eks"
    /\ gr.pc = "probe"
    /\ gr.tries < eks_max_retries
    /\ LET status == RemoteStatus(RemoteBranchExists(gr.name, "main"), fault) IN
        gr' = IF status = 200
              THEN [Finish(gr, "returned", gr.repo) EXCEPT !.probes = @ + 1,
                                                           !.all404 = FALSE]
              ELSE IF gr.tries + 1 = eks_max_retries
              THEN [Finish(Probed(gr, status, eks_retry_delay), "timeout", NoDescriptor)
                       EXCEPT !.error = "timeout"]
              ELSE Probed(gr, status, eks_retry_delay)
    /\ UNCHANGED <<gitVars, opVars, org>>

eks_get_repository ==
    \/ \E fault \in BOOLEAN : eks_repo_get(fault)
    \/ \E fault \in BOOLEAN, d \in Branches : eks_repo_post(fault, d)
    \/ \E fault \in BOOLEAN : eks_repo_probe(fault)

\* ------------------------------------ template_automation/app.py: get_repository
\* the statuses set_team_permission can end with
PermStatuses == {200, 404, 422, 500}

pyg_repo_get(fault) ==
    /\ gr.impl = "pyg"
    /\ gr.pc = "get"
    /\ LET status == RemoteStatus(org[gr.name].exists, fault) IN
        gr' = IF status = 200
              THEN IF gr.team
                   THEN [gr EXCEPT !.pc = "perm", !.lookup = status,
                                   !.repo = RemoteDescriptor(gr.name)]
                   ELSE [Finish(gr, "returned", RemoteDescriptor(gr.name)) EXCEPT
                            !.lookup = status]
              ELSE IF status = 404 /\ gr.create
              THEN [gr EXCEPT !.pc = "post", !.lookup = status]
              ELSE [Raise(gr, HttpError(status)) EXCEPT !.lookup = status]
    /\ UNCHANGED <<gitVars, opVars, org>>

pyg_repo_create(fault, d) ==
    /\ gr.impl = "pyg"
    /\ gr.pc = "post"
    /\ IF ~RemoteCanCreate(gr.name, fault)
       THEN /\ gr' = [Raise(gr, "create_failed") EXCEPT
                        !.posts = @ + 1, !.callPosts = @ + 1]
            /\ UNCHANGED org
       ELSE /\ org' = RemoteCreate(gr.name, d, TRUE)
            /\ gr' = [gr EXCEPT !.pc = "probe", !.tries = 0, !.created = TRUE,
                                !.repo = [name |-> gr.name, default_branch |-> d],
                                !.posts = @ + 1, !.callPosts = @ + 1]
    /\ UNCHANGED <<gitVars, opVars>>

\* one pass of the wait loop: repo.get_branch("main"); the loop's else raises;
\* after the break the team is granted its permission, when one was given
pyg_repo_probe(fault) ==
    /\ gr.impl = "pyg"
    /\ gr.pc = "probe"
    /\ gr.tries < pyg_max_retries
    /\ LET status == RemoteStatus(RemoteBranchExists(gr.name, "main"), fault) IN
        gr' = IF status = 200
              THEN IF gr.team
                   THEN [gr EXCEPT !.pc = "perm", !.probes = @ + 1, !.all404 = FALSE]
                   ELSE [Finish(gr, "returned", gr.repo) EXCEPT !.probes = @ + 1,
                                                                !.all404 = FALSE]
              ELSE IF gr.tries + 1 = pyg_max_retries
              THEN [Finish(Probed(gr, status, pyg_retry_delay), "timeout", NoDescriptor)
                       EXCEPT !.error = "timeout"]
              ELSE Probed(gr, status, pyg_retry_delay)
    /\ UNCHANGED <<gitVars, opVars, org>>

\* set_team_permission(repo_name, owning_team, "admin") logs and re-raises a
\* GithubException.  On the existing-repository path the call stands inside
\* the try of the lookup: its 404 with create leads to create_repo, any other
\* status is raised; on the created path nothing catches it
pyg_set_team_permission(status) ==
    /\ gr.impl = "pyg"
    /\ gr.pc = "perm"
    /\ gr' = IF status = 200
             THEN [Finish(gr, "returned", gr.repo) EXCEPT
                      !.perm = "ok", !.teamStatus = status, !.granted = TRUE]
             ELSE IF ~gr.created /\ status = 404 /\ gr.create
             THEN [gr EXCEPT !.pc = "post", !.perm = "raised"]
             ELSE [Raise(gr, "permission") EXCEPT !.perm = "raised"]
    /\ UNCHANGED <<gitVars, opVars, org>>

pyg_get_repository ==
    \/ \E fault \in BOOLEAN : pyg_repo_get(fault)
    \/ \E fault \in BOOLEAN, d \in Branches : pyg_repo_create(fault, d)
    \/ \E fault \in BOOLEAN : pyg_repo_probe(fault)
    \/ \E status \in PermStatuses : pyg_set_team_permission(status)

\* --------------------------------------------- github_client: get_repository
gh_repo_get(fault) ==
    /\ gr.impl = "gh"
    /\ gr.pc = "get"
    /\ LET status == RemoteStatus(org[gr.name].exists, fault) IN
        gr' = IF status = 200
              THEN IF gr.team
                   THEN [gr EXCEPT !.pc = "perm", !.lookup = status,
                                   !.repo = RemoteDescriptor(gr.name)]
                   ELSE [Finish(gr, "returned", RemoteDescriptor(gr.name)) EXCEPT
                            !.lookup = status]
              ELSE IF status = 404 /\ gr.create
              THEN [gr EXCEPT !.pc = "post", !.lookup = status]
              ELSE [Raise(gr, HttpError(status)) EXCEPT !.lookup = status]
    /\ UNCHANGED <<gitVars, opVars, org>>

\* a creation whose failure is passed over
gh_repo_post_continuing(fault, d) ==
    /\ gr.impl = "gh"
    /\ gr.pc = "post"
    /\ IF ~RemoteCanCreate(gr.name, fault)
       THEN /\ gr' = [gr EXCEPT !.pc = "readme", !.tries = 0,
                                !.posts = @ + 1, !.callPosts = @ + 1]
            /\ UNCHANGED org
       ELSE /\ org' = RemoteCreate(gr.name, d, FALSE)
            /\ gr' = [gr EXCEPT !.pc = "readme", !.tries = 0, !.created = TRUE,
                                !.repo = [name |-> gr.name, default_branch |-> d],
                                !.posts = @ + 1, !.callPosts = @ + 1]
    /\ UNCHANGED <<gitVars, opVars>>

\* the repository is created with its name and private only: no auto_init
gh_repo_post(fault, d) ==
    /\ gr.impl = "gh"
    /\ gr.pc = "post"
    /\ IF ~RemoteCanCreate(gr.name, fault)
       THEN /\ gr' = [Raise(gr, "create_failed") EXCEPT
                        !.posts = @ + 1, !.callPosts = @ + 1]
            /\ UNCHANGED org
       ELSE /\ org' = RemoteCreate(gr.name, d, FALSE)
            /\ gr' = [gr EXCEPT !.pc = "readme", !.tries = 0, !.created = TRUE,
                                !.repo = [name |-> gr.name, default_branch |-> d],
                                !.posts = @ + 1, !.callPosts = @ + 1]
    /\ UNCHANGED <<gitVars, opVars>>

\* what follows the initialization block: the permission of the owning team
\* when one was given, else return repo
AfterInit(g) == IF g.team THEN [g EXCEPT !.pc = "perm"] ELSE Finish(g, "returned", g.repo)

\* PUT contents/README.md: the first commit of the repository, then
\* time.sleep(2); a failure is logged and the initialization block is left
gh_repo_put_readme(fault) ==
    /\ gr.impl = "gh"
    /\ gr.pc = "readme"
    /\ IF fault
       THEN /\ gr' = AfterInit([gr EXCEPT !.puts = @ + 1])
            /\ UNCHANGED org
       ELSE /\ org' = [org EXCEPT ![gr.name].init = TRUE]
            /\ gr' = [gr EXCEPT !.pc = "reget", !.puts = @ + 1,
                                !.waited = @ + gh_init_delay]
    /\ UNCHANGED <<gitVars, opVars>>

\* the repository the client reads again: url.replace("/orgs/", "/repos/")
\* turns /orgs/{org}/repos into /repos/{org}/repos
gh_reget_name == "repos"

\* repo = GET of that path, before the loop and after each failed probe; a
\* failure leaves the initialization block with the repo the client holds
gh_repo_reget(fault) ==
    /\ gr.impl = "gh"
    /\ gr.pc = "reget"
    /\ LET status == RemoteStatus(org[gh_reget_name].exists, fault) IN
        gr' = IF status # 200 THEN AfterInit(gr)
              ELSE IF gr.tries = gh_probe_attempts
              THEN AfterInit([gr EXCEPT !.repo = RemoteDescriptor(gh_reget_name)])
              ELSE [gr EXCEPT !.pc = "probe", !.repo = RemoteDescriptor(gh_reget_name)]
    /\ UNCHANGED <<gitVars, opVars, org>>

\* one pass of the loop: get_branch(repo_name, repo["default_branch"])
gh_repo_probe(fault) ==
    /\ gr.impl = "gh"
    /\ gr.pc = "probe"
    /\ gr.tries < gh_probe_attempts
    /\ LET status == RemoteStatus(RemoteBranchExists(gr.name, gr.repo.default_branch), fault) IN
        gr' = IF status = 200
              THEN AfterInit([gr EXCEPT !.probes = @ + 1, !.all404 = FALSE])
              ELSE [Probed(gr, status, gh_retry_delay) EXCEPT !.pc = "reget"]
    /\ UNCHANGED <<gitVars, opVars, org>>

\* set_team_permission: GET of the team, PUT of the permission, and on 422 or
\* 404 a PUT on the alternative path.  A 404 of any of them is logged and the
\* function returns; every other error status is raised
gh_permission_status(team, put, alt) ==
    IF team # 200 THEN team
    ELSE IF put = 200 THEN 200
    ELSE IF put \in {422, 404} THEN alt
    ELSE put

\* on the existing-repository path the error is raised by get_repository; on
\* the created path it is logged and the repository returned
gh_set_team_permission(team, put, alt) ==
    /\ gr.impl = "gh"
    /\ gr.pc = "perm"
    /\ LET status == gh_permission_status(team, put, alt)
           \* the team was found, and a PUT of the permission was accepted
           g == [gr EXCEPT !.teamStatus = team,
                           !.granted = /\ team = 200
                                       /\ \/ put = 200
                                          \/ put \in {422, 404} /\ alt = 200]
       IN
        gr' = IF status = 200 THEN [Finish(g, "returned", g.repo) EXCEPT !.perm = "ok"]
              ELSE IF status = 404
              THEN [Finish(g, "returned", g.repo) EXCEPT !.perm = "logged"]
              ELSE IF gr.created
              THEN [Finish(g, "returned", g.repo) EXCEPT !.perm = "raised"]
              ELSE [Raise(g, "permission") EXCEPT !.perm = "raised"]
    /\ UNCHANGED <<gitVars, opVars, org>>

gh_get_repository ==
    \/ \E fault \in BOOLEAN : gh_repo_get(fault)
    \/ \E fault \in BOOLEAN, d \in Branches : gh_repo_post(fault, d)
    \/ \E fault \in BOOLEAN : gh_repo_put_readme(fault)
    \/ \E fault \in BOOLEAN : gh_repo_reget(fault)
    \/ \E fault \in BOOLEAN : gh_repo_probe(fault)
    \/ \E team \in {200, 404, 500}, put \in PermStatuses, alt \in {200, 404, 500} :
          gh_set_team_permission(team, put, alt)

\* the organisation as found: each repository absent, or present with either
\* default branch, initialised or still empty
InitRepo ==
    /\ commits = << Commit(Tree1, <<>>), Commit(Tree2, <<1>>) >>
    /\ refs = [b \in Branches |-> 0]
    /\ defaultBranch = "main"
    /\ wr = WIdle
    /\ cloned = NoClone
    /\ nWrites = 0
    /\ cb = BIdle
    /\ rd = NoRead
    /\ lh = LIdle
    /\ tmpl = NoTemplate
    /\ rp = RIdle
    /\ rq = NoRequest
    /\ org \in [RepoNames -> {NoRepository}
                              \cup {Repository(d, r) : d \in Branches, r \in BOOLEAN}]
    /\ gr = GIdle

NextRepo ==
    \/ get_repository_call
    \/ eks_get_repository
    \/ pyg_get_repository
    \/ gh_get_repository
    \/ remote_materialise

SpecRepo == InitRepo /\ [][NextRepo]_vars

\* ================================================================= claims
\* the tree writers: commit_repository_contents (eks) and create_commit (pyg)
TreeWrite == wr.op \in {"eks", "pyg"}
WriteDone == wr.pc = "done"
\* the entries a tree write uploads: eks passes over paths with a .git component
Uploaded(p) ==
    /\ wr.files[p] # NoFile
    /\ (wr.op = "eks" => ".git" \notin Range(p))
\* the tree the target branch showed when the write began
PreTree == IF wr.pre[wr.target] = 0 THEN EmptyTree ELSE commits[wr.pre[wr.target]].tree
PreMainTree == IF wr.pre["main"] = 0 THEN EmptyTree ELSE commits[wr.pre["main"]].tree
NoFaults == \A k \in 1..Len(wr.log) : ~wr.log[k].fault
LastReq == wr.log[Len(wr.log)]

\* C1: after a successful tree write to a target branch that existed, the new
\* head has exactly one parent, the commit the target branch pointed to before,
\* and every commit reachable from the branch before is still reachable from it.
C1_SoleParentIsOldHead ==
    (TreeWrite /\ WriteDone /\ wr.pre[wr.target] # 0) =>
        /\ commits[refs[wr.target]].parents = << wr.pre[wr.target] >>
        /\ Ancestors(commits, wr.pre[wr.target]) \subseteq Ancestors(commits, refs[wr.target])

C3_UntouchedPathsKept ==
    (TreeWrite /\ WriteDone /\ wr.pre[wr.target] # 0) =>
        \A p \in Paths :
            (PreTree[p] # NoFile /\ ~Uploaded(p)) => BranchTree(wr.target)[p] = PreTree[p]

\* the files a copy is to put on the target branch
ToWrite == {p \in Paths : wr.files[p] # NoFile /\
                IF wr.op = "eks" THEN ".git" \notin Range(p) ELSE p[1] # ".git"}
OnBranch(p) == BranchTree(wr.target)[p] = wr.files[p]
\* some of the files the copy changes are on the branch and some are not
PartlyWritten ==
    \E p, q \in {x \in ToWrite : PreTree[x] # wr.files[x]} : OnBranch(p) /\ ~OnBranch(q)

\* C4: a copy of N >= 1 files changes the target reference exactly once, as its
\* last step, and the branch never shows a part of the files.
C4_OneReferenceChange ==
    (wr.op \in {"eks", "gh"} /\ wr.target # NoBranch) =>
        /\ wr.nRefChanges <= 1
        /\ wr.nRefChanges = 1 => WriteDone
        /\ (WriteDone /\ wr.op = "eks") => wr.nRefChanges = 1
        /\ ~PartlyWritten

\* a read of the branch just written, none of whose requests the service failed
ReadBack ==
    /\ wr.op = "eks" /\ WriteDone
    /\ cloned.set /\ cloned.clean /\ cloned.resolved
    /\ cloned.branch = wr.target

\* C5 as claimed: the read returns exactly the entries written.
C5_RoundTripExact == ReadBack => cloned.files = wr.files

\* C5 as amended: every uploaded entry comes back byte-identical; the other
\* entries read are the paths of the base tree (main's) the write left alone.
C5_RoundTripOverBase ==
    ReadBack =>
        \A p \in Paths :
            cloned.files[p] = IF Uploaded(p) THEN wr.files[p]
                              ELSE IF wr.hasBase THEN PreMainTree[p]
                              ELSE NoFile

C5_Witness ==
    /\ ReadBack
    /\ \E p \in Paths : Uploaded(p) /\ wr.files[p] = Bytes2
    /\ \E p \in Paths : ~Uploaded(p) /\ cloned.files[p] # NoFile

\* C6: the reference is first updated with PATCH (force); POST git/refs is sent
\* only after that PATCH failed; when the POST fails too the write raises and
\* the target reference is as it was.
C6_UpdateThenCreate ==
    wr.op = "eks" =>
        /\ \A k \in 1..Len(wr.log) :
              /\ (wr.log[k].m = "POST" /\ wr.log[k].r = "refs") =>
                    /\ k > 1
                    /\ wr.log[k - 1].m = "PATCH" /\ wr.log[k - 1].r = "ref"
                    /\ ~wr.log[k - 1].ok
              /\ (wr.log[k].m = "PATCH" /\ wr.log[k].ok) => refs[wr.target] = wr.newCommit
              /\ (wr.log[k].m = "PATCH" /\ ~wr.log[k].ok /\ ~wr.log[k].fault) =>
                    wr.pre[wr.target] = 0
        /\ (wr.pc \in {"done", "failed"} /\ Len(wr.log) > 0 /\ LastReq.r = "refs"
                /\ ~LastReq.ok) =>
              /\ wr.pc = "failed"
              /\ refs = wr.pre
        /\ wr.pc = "create" => (LastReq.m = "PATCH" /\ ~LastReq.ok /\ refs = wr.pre)
        /\ WriteDone => (LastReq.ok /\ LastReq.r \in {"ref", "refs"})

C6_Witness ==
    /\ wr.op = "eks" /\ wr.pc = "failed"
    /\ LastReq = Req("POST", "refs", FALSE, TRUE)
    /\ wr.pre[wr.target] # 0

\* C7: a tree write to branch B leaves every other branch at its commit, and B
\* shows the uploaded contents afterwards.
C7_OnlyTargetMoves ==
    wr.op = "eks" =>
        /\ \A b \in Branches : b # wr.target => refs[b] = wr.pre[b]
        /\ WriteDone => \A p \in Paths : Uploaded(p) => BranchTree(wr.target)[p] = wr.files[p]

C7_Witness ==
    /\ wr.op = "eks" /\ WriteDone /\ wr.target = "dev"
    /\ wr.pre["main"] # 0 /\ refs["dev"] # refs["main"]
    /\ \E p \in Paths : Uploaded(p) /\ BranchTree("main")[p] # wr.files[p]

BothReturned ==
    /\ gr.call = 2
    /\ gr.pc = "done"
    /\ gr.create
    /\ gr.first.outcome = "returned"
    /\ gr.outcome = "returned"

\* C9: get_repository(name, create=True) called twice in sequence returns a
\* descriptor with the same default branch both times, issues one creation
\* request in total when the repository was absent (none when it was there),
\* and none in the second call.
C9_GetOrCreateIdempotent ==
    BothReturned =>
        /\ gr.first.repo.default_branch = gr.repo.default_branch
        /\ gr.posts = (IF gr.existed THEN 0 ELSE 1)
        /\ gr.callPosts = 0

\* a call that created the repository and had every probe answered 404
CreatedAllProbes404 ==
    /\ gr.pc = "done"
    /\ gr.created
    /\ gr.probes >= 1
    /\ gr.all404

\* the attempts the implementation's wait loop allows
ProbeBudget ==
    IF gr.impl = "eks" THEN eks_max_retries
    ELSE IF gr.impl = "pyg" THEN pyg_max_retries
    ELSE gh_probe_attempts

\* C10: when the repository has been created and every branch-existence probe
\* is answered 404, get_repository(create=True) ends after a bounded number of
\* probes by raising the initialization timeout; it does not return a repository.
C10_AllProbes404RaisesTimeout ==
    /\ gr.probes <= ProbeBudget
    /\ CreatedAllProbes404 => gr.outcome = "timeout"

\* a call that created the repository and stopped waiting for its
\* initialization with the attempts of its loop used up
GaveUp ==
    /\ gr.pc = "done"
    /\ gr.created
    /\ gr.tries = ProbeBudget

\* C11: get_repository(create=True) gives up on the initialization of a
\* repository it created only after at least 10 branch-existence probes, with
\* waits of at least 20 seconds in total between them.
C11_GivesUpAfterTenProbesTwentySeconds ==
    GaveUp => (gr.probes >= 10 /\ gr.waited >= 20)

\* C12: when get_repository(create=True) returns after having created the
\* repository, the repository's default branch exists on the service.
C12_ReturnedImpliesDefaultBranch ==
    (gr.pc = "done" /\ gr.created /\ gr.outcome = "returned") =>
        RemoteBranchExists(gr.name, org[gr.name].default_branch)

\* a call with create false whose lookup was answered 404
LookupMissNoCreate ==
    /\ gr.pc = "done"
    /\ ~gr.create
    /\ gr.lookup = 404

\* C13: when the lookup is answered 404 and create is false, get_repository
\* raises the not-found error and no creation request is issued.
C13_NotFoundWithoutCreate ==
    /\ LookupMissNoCreate =>
          /\ gr.outcome = "raised"
          /\ gr.error = "not_found"
          /\ gr.callPosts = 0
          /\ ~gr.created
    /\ ~gr.create => (gr.posts = 0 /\ gr.pc # "post")

C13_Witness ==
    /\ LookupMissNoCreate
    /\ gr.impl = "eks"
    /\ gr.outcome = "raised"

\* a call with an owning team whose lookup or creation succeeded and whose
\* grant of the permission failed
PermissionFailed ==
    /\ gr.pc = "done"
    /\ gr.team
    /\ gr.perm \in {"logged", "raised"}

\* C14: a failure while granting the owning team its permission is only logged:
\* get_repository returns the repository, on the existing-repository path and
\* on the created path, whatever the failure status.
C14_PermissionFailureNotFatal ==
    PermissionFailed => gr.outcome = "returned"

\* a call whose creation request was refused
CreationFailed ==
    /\ gr.callPosts > 0
    /\ ~gr.created

\* C15: when the lookup is answered 404, create is true and the creation
\* request fails, get_repository raises the creation error and does nothing
\* after it: no README is written, no branch is probed, nothing is waited for.
C15_CreationFailureRaises ==
    CreationFailed =>
        /\ gr.pc = "done"
        /\ gr.outcome = "raised"
        /\ gr.error = "create_failed"
        /\ gr.puts = 0
        /\ gr.probes = 0
        /\ gr.waited = 0

C15_Witness ==
    /\ CreationFailed
    /\ gr.impl = "gh"
    /\ gr.lookup = 404
    /\ gr.create

\* C16: no step of get_repository removes a repository from the organisation,
\* and a repository the call created is there when the call has ended,
\* whatever became of its initialization.
C16_NoRepositoryDeleted ==
    [][ /\ \A n \in RepoNames : org[n].exists => org'[n].exists
        /\ gr'.created => org'[gr'.name].exists ]_vars

C16_Witness ==
    /\ gr.pc = "done"
    /\ gr.created
    /\ gr.outcome = "timeout"
    /\ org[gr.name].exists
    /\ ~org[gr.name].ready

\* =========================================================== create_branch
\* GET branches/{b}: the branch and its head commit
RemoteBranchStatus(b, fault) == RemoteStatus(refs[b] # 0, fault)

\* the error a refused POST git/refs is passed on with
RefError(fault) == IF fault THEN "http_error" ELSE "conflict"

\* create_branch(repo_name, branch_name, from_ref) begins
create_branch_call ==
    \E impl \in {"gh", "pyg"}, branch_name \in Branches, from_ref \in Branches :
        /\ cb.pc = "idle"
        /\ cb' = [BIdle EXCEPT !.impl = impl, !.branch_name = branch_name,
                               !.from_ref = from_ref, !.pre = refs,
                               !.pc = IF impl = "pyg" THEN "repo" ELSE "source"]
        /\ UNCHANGED <<gitVars, lifeVars, rd, hVars>>

BranchRaise(c, error) == [c EXCEPT !.pc = "done", !.outcome = "raised", !.error = error]

\* a lookup of "main" whatever from_ref is
gh_branch_source_main(fault) ==
    /\ cb.impl = "gh"
    /\ cb.pc = "source"
    /\ LET status == RemoteBranchStatus("main", fault) IN
        cb' = IF status = 200 THEN [cb EXCEPT !.pc = "create", !.sha = refs["main"]]
              ELSE BranchRaise(cb, HttpError(status))
    /\ UNCHANGED <<gitVars, lifeVars, rd, hVars>>

\* source_branch = self.get_branch(repo_name, from_ref); its error is passed on
gh_branch_source(fault) ==
    /\ cb.impl = "gh"
    /\ cb.pc = "source"
    /\ LET status == RemoteBranchStatus(cb.from_ref, fault) IN
        cb' = IF status = 200 THEN [cb EXCEPT !.pc = "create", !.sha = refs[cb.from_ref]]
              ELSE BranchRaise(cb, HttpError(status))
    /\ UNCHANGED <<gitVars, lifeVars, rd, hVars>>

\* a creation that moves the branch when it is already there
gh_branch_create_moving(fault) ==
    /\ cb.impl = "gh"
    /\ cb.pc = "create"
    /\ IF ~fault
       THEN /\ refs' = [refs EXCEPT ![cb.branch_name] = cb.sha]
            /\ cb' = [cb EXCEPT !.pc = "done", !.outcome = "returned", !.posts = @ + 1]
       ELSE /\ cb' = [BranchRaise(cb, RefError(fault)) EXCEPT !.posts = @ + 1]
            /\ UNCHANGED refs
    /\ UNCHANGED <<commits, defaultBranch, wr, cloned, nWrites, lifeVars, rd, hVars>>

\* POST git/refs {ref: refs/heads/{branch_name}, sha: commit_sha}
gh_branch_create(fault) ==
    /\ cb.impl = "gh"
    /\ cb.pc = "create"
    /\ IF ~fault /\ RemoteCanCreateRef(cb.branch_name)
       THEN /\ refs' = [refs EXCEPT ![cb.branch_name] = cb.sha]
            /\ cb' = [cb EXCEPT !.pc = "done", !.outcome = "returned", !.posts = @ + 1]
       ELSE /\ cb' = [BranchRaise(cb, RefError(fault)) EXCEPT !.posts = @ + 1]
            /\ UNCHANGED refs
    /\ UNCHANGED <<commits, defaultBranch, wr, cloned, nWrites, lifeVars, rd, hVars>>

gh_create_branch ==
    \/ \E fault \in BOOLEAN : gh_branch_source(fault)
    \/ \E fault \in BOOLEAN : gh_branch_create(fault)

\* repo = self.org.get_repo(repo_name)
pyg_branch_get_repo(fault) ==
    /\ cb.impl = "pyg"
    /\ cb.pc = "repo"
    /\ cb' = IF fault THEN BranchRaise(cb, "http_error") ELSE [cb EXCEPT !.pc = "source"]
    /\ UNCHANGED <<gitVars, lifeVars, rd, hVars>>

\* source = repo.get_branch(from_ref)
pyg_branch_source(fault) ==
    /\ cb.impl = "pyg"
    /\ cb.pc = "source"
    /\ LET status == RemoteBranchStatus(cb.from_ref, fault) IN
        cb' = IF status = 200 THEN [cb EXCEPT !.pc = "create", !.sha = refs[cb.from_ref]]
              ELSE BranchRaise(cb, HttpError(status))
    /\ UNCHANGED <<gitVars, lifeVars, rd, hVars>>

\* repo.create_git_ref(ref, sha); the GithubException is logged and raised
pyg_branch_create(fault) ==
    /\ cb.impl = "pyg"
    /\ cb.pc = "create"
    /\ IF ~fault /\ RemoteCanCreateRef(cb.branch_name)
       THEN /\ refs' = [refs EXCEPT ![cb.branch_name] = cb.sha]
            /\ cb' = [cb EXCEPT !.pc = "done", !.outcome = "returned", !.posts = @ + 1]
       ELSE /\ cb' = [BranchRaise(cb, RefError(fault)) EXCEPT !.posts = @ + 1]
            /\ UNCHANGED refs
    /\ UNCHANGED <<commits, defaultBranch, wr, cloned, nWrites, lifeVars, rd, hVars>>

pyg_create_branch ==
    \/ \E fault \in BOOLEAN : pyg_branch_get_repo(fault)
    \/ \E fault \in BOOLEAN : pyg_branch_source(fault)
    \/ \E fault \in BOOLEAN : pyg_branch_create(fault)

\* the repository as found: each branch absent or at one of the two commits
InitBranch ==
    /\ commits = << Commit(Tree1, <<>>), Commit(Tree2, <<1>>) >>
    /\ refs \in [Branches -> 0..2]
    /\ defaultBranch \in Branches
    /\ wr = WIdle
    /\ cloned = NoClone
    /\ nWrites = 0
    /\ org = [n \in RepoNames |-> NoRepository]
    /\ gr = GIdle
    /\ cb = BIdle
    /\ rd = NoRead
    /\ lh = LIdle
    /\ tmpl = NoTemplate
    /\ rp = RIdle
    /\ rq = NoRequest

NextBranch ==
    \/ create_branch_call
    \/ gh_create_branch
    \/ pyg_create_branch

SpecBranch == InitBranch /\ [][NextBranch]_vars

\* C17: after a successful create_branch the reference of branch_name exists
\* and points to the commit from_ref's head pointed to at the lookup; from_ref
\* and every other reference are unchanged.
C17_BranchCreatedAtSourceHead ==
    (cb.pc = "done" /\ cb.outcome = "returned") =>
        /\ cb.pre[cb.from_ref] # 0
        /\ cb.sha = cb.pre[cb.from_ref]
        /\ refs[cb.branch_name] = cb.pre[cb.from_ref]
        /\ \A b \in Branches : b # cb.branch_name => refs[b] = cb.pre[b]
        /\ cb.pre[cb.branch_name] = 0

C17_Witness ==
    /\ cb.pc = "done" /\ cb.outcome = "returned"
    /\ cb.from_ref = "dev" /\ cb.branch_name = "main"
    /\ refs["main"] = refs["dev"]
    /\ cb.pre["main"] = 0

\* C18: create_branch fails with the not-found error, before any request to
\* create the reference, when from_ref does not exist; it fails with the
\* conflict error when the branch exists, and the branch stays where it was.
C18_BranchErrors ==
    /\ (cb.pc \in {"create", "done"} /\ cb.pre[cb.from_ref] = 0) =>
          /\ cb.pc = "done"
          /\ cb.outcome = "raised"
          /\ cb.posts = 0
          /\ cb.error \in {"not_found", "http_error"}
          /\ refs = cb.pre
    /\ (cb.pc = "done" /\ cb.error = "not_found") =>
          (cb.pre[cb.from_ref] = 0 /\ cb.posts = 0)
    /\ (cb.pc = "done" /\ cb.posts > 0 /\ cb.pre[cb.branch_name] # 0) =>
          /\ cb.outcome = "raised"
          /\ cb.error \in {"conflict", "http_error"}
          /\ refs = cb.pre
    /\ (cb.pc = "done" /\ cb.error = "conflict") =>
          (cb.pre[cb.branch_name] # 0 /\ refs = cb.pre)

C18_Witness ==
    /\ cb.pc = "done" /\ cb.error = "conflict"
    /\ cb.from_ref # cb.branch_name
    /\ cb.pre[cb.from_ref] # cb.pre[cb.branch_name]

\* ========================================================= the tree readers
\* the source side of clone_repository_contents in the three clients; the
\* repository modelled is the source
Tree3 == [Tree1 EXCEPT ![PathA] = Bytes1, ![PathB] = Bytes1]

\* the outcome of a read: the branch read and reported, the commit resolved,
\* the files obtained
ReadResult(impl, arg, branch, sha, files, f) ==
    [impl |-> impl, set |-> TRUE, arg |-> arg, branch |-> branch, sha |-> sha,
     files |-> files, raised |-> FALSE, clean |-> f.kind = "none"]

ReadRaised(impl, arg, f) ==
    [impl |-> impl, set |-> TRUE, arg |-> arg, branch |-> NoBranch, sha |-> 0,
     files |-> EmptyTree, raised |-> TRUE, clean |-> f.kind = "none"]

\* eks_automation: clone_repository_contents(source_repo, target_dir, branch)
eks_read ==
    \E branch \in Branches \cup {NoBranch}, f \in ReadFaults :
        /\ ~rd.set
        /\ LET c == eks_clone_result(branch, f) IN
            rd' = IF c.raised THEN ReadRaised("eks", branch, f)
                  ELSE ReadResult("eks", branch, c.branch,
                                  IF c.resolved THEN refs[c.branch] ELSE 0,
                                  c.files, f)
        /\ UNCHANGED <<gitVars, lifeVars, cb, hVars>>

\* source_branch: str = "main"
gh_source_branch_of(source_branch) ==
    IF source_branch # NoBranch THEN source_branch ELSE "main"

\* the copy loop's reads: GET contents/{path}?ref={source_branch} for every
\* blob entry outside .git; newlines are removed from the payload, which the
\* target decodes; a failed read is logged and the loop goes on
gh_read_files(listing, b, failed) ==
    [p \in Paths |->
        IF /\ \E e \in listing : e.path = p /\ e.type = "blob"
           /\ p[1] # ".git"
           /\ p \notin failed
        THEN RemoteStoreBlob(strip_newlines(WrapLines(b64encode(BranchTree(b)[p]))))
        ELSE NoFile]

\* template_automation/github_client: get_repository, get_branch, GET
\* git/trees/{sha}?recursive=1; an error of any of them is raised as ValueError
gh_read ==
    \E source_branch \in Branches \cup {NoBranch}, f \in ReadFaults :
        /\ ~rd.set
        /\ LET b == gh_source_branch_of(source_branch) IN
            rd' = IF f.kind \in {"default", "ref", "tree"} \/ refs[b] = 0
                  THEN ReadRaised("gh", source_branch, f)
                  ELSE ReadResult("gh", source_branch, b, refs[b],
                           gh_read_files(RemoteTreeListing(commits[refs[b]].tree),
                                         b, f.blobs), f)
        /\ UNCHANGED <<gitVars, lifeVars, cb, hVars>>

\* base64.b64decode(blob.content).decode('utf-8') for every blob entry
pyg_read_files(listing) ==
    [p \in Paths |->
        IF \E e \in listing : e.path = p /\ e.type = "blob"
        THEN b64decode(RemoteBlobContent(
                 (CHOOSE e \in listing : e.path = p /\ e.type = "blob").sha))
        ELSE NoFile]

\* template_automation/app: source_ref None is source.default_branch; when
\* get_branch fails the name itself is handed to get_git_tree; a failed
\* request or a blob that is not utf-8 raises
pyg_read ==
    \E source_ref \in Branches \cup {NoBranch}, f \in ReadFaults :
        /\ ~rd.set
        /\ LET b == IF source_ref # NoBranch THEN source_ref ELSE defaultBranch
               files == pyg_read_files(RemoteTreeListing(BranchTree(b)))
           IN
            rd' = IF \/ f.kind \in {"default", "tree"}
                     \/ refs[b] = 0
                     \/ f.blobs # {}
                     \/ \E p \in FilesOf(files) : ~utf8_valid(files[p])
                  THEN ReadRaised("pyg", source_ref, f)
                  ELSE ReadResult("pyg", source_ref, b, refs[b], files, f)
        /\ UNCHANGED <<gitVars, lifeVars, cb, hVars>>

\* the source repository as found: three commits, each branch absent or at one
InitRead ==
    /\ commits = << Commit(Tree1, <<>>), Commit(Tree2, <<1>>), Commit(Tree3, <<2>>) >>
    /\ refs \in [Branches -> 0..3]
    /\ defaultBranch \in Branches
    /\ wr = WIdle
    /\ cloned = NoClone
    /\ nWrites = 0
    /\ org = [n \in RepoNames |-> NoRepository]
    /\ gr = GIdle
    /\ cb = BIdle
    /\ rd = NoRead
    /\ lh = LIdle
    /\ tmpl = NoTemplate
    /\ rp = RIdle
    /\ rq = NoRequest

NextRead ==
    \/ eks_read
    \/ gh_read
    \/ pyg_read

SpecRead == InitRead /\ [][NextRead]_vars

\* a read that was given no branch and did not raise
DefaultRead == rd.set /\ rd.arg = NoBranch /\ ~rd.raised

\* C19: a read given no source branch reads the tree of the repository's
\* default branch, whatever its name, and reports that name.
C19_ReadsDefaultBranch ==
    DefaultRead =>
        /\ rd.branch = defaultBranch
        /\ rd.sha = refs[defaultBranch]
        /\ rd.clean => rd.files = BranchTree(defaultBranch)

\* a read that resolved a commit and did not raise
ReadCompleted == rd.set /\ ~rd.raised /\ rd.sha # 0

\* C20: a read that completes without raising holds, for every blob of the
\* tree at the resolved commit, that blob's decoded content, and nothing else.
C20_EveryBlobRead ==
    ReadCompleted => \A p \in Paths : rd.files[p] = commits[rd.sha].tree[p]

\* the branch a read sets out to resolve
ReadSource ==
    IF rd.arg # NoBranch THEN rd.arg
    ELSE IF rd.impl = "gh" THEN "main"
    ELSE defaultBranch

\* a read, with no request failed, of a branch that does not exist
Unresolvable == rd.set /\ rd.clean /\ refs[ReadSource] = 0

\* C21: when the source branch cannot be resolved the read does not fail: it
\* returns no entries and the branch asked for, or "main" when none was.
C21_UnresolvedReturnsEmpty ==
    Unresolvable =>
        /\ ~rd.raised
        /\ rd.files = EmptyTree
        /\ rd.branch = IF rd.arg # NoBranch THEN rd.arg ELSE "main"

\* ============================ eks_automation: lambda_handler, operate_github
\* the input documents: well formed, with an empty project_name, or without
\* one of the keys the handler indexes
Events == {"ok", "empty_name", "no_body", "no_name", "no_settings"}
\* the environment variables operate_github reads without which it has no
\* API address, organisation or template of its own; at most one is unset
RequiredParams == {"GITHUB_API", "GITHUB_ORG_NAME", "TEMPLATE_REPO_NAME"}

\* the template repository as found
Template(d, hs) == [exists |-> TRUE, default_branch |-> d, heads |-> hs]

\* clone_repository_contents(source_repo, target_dir, branch) on a source
\* repository given by its descriptor
eks_clone_of(t, branch, f) ==
    LET b == IF branch # NoBranch THEN branch ELSE t.default_branch
        resolved == /\ ~(branch = NoBranch /\ f.kind = "default")
                    /\ f.kind # "ref"
                    /\ t.heads[b] # EmptyTree
    IN  IF ~resolved
        THEN [branch |-> IF branch # NoBranch THEN branch ELSE "main",
              files |-> EmptyTree, raised |-> FALSE, resolved |-> FALSE]
        ELSE IF f.kind = "tree"
        THEN [branch |-> NoBranch, files |-> EmptyTree, raised |-> TRUE,
              resolved |-> TRUE]
        ELSE [branch |-> b,
              files |-> download_repository_files(RemoteTreeListing(t.heads[b]), f.blobs),
              raised |-> FALSE, resolved |-> TRUE]

\* a handler that lets the exception of operate_github escape
lh_on_exception_escaping(l, e) ==
    [l EXCEPT !.pc = "done", !.outcome = "raised", !.error = e]

\* except Exception as e: return {"statusCode": 400, "body": {"error": str(e)}}
lh_on_exception(l, e) ==
    [l EXCEPT !.pc = "done", !.outcome = "response", !.status = 400, !.error = e]

\* a handler that goes on with an empty project name
lh_invoke_unchecked ==
    \E event \in Events, missing \in RequiredParams \cup {"none"} :
        /\ lh.pc = "idle"
        /\ lh' = IF event \in {"no_body", "no_name", "no_settings"}
                 THEN [lh EXCEPT !.event = event, !.pc = "done", !.missing = missing,
                                 !.outcome = "raised", !.error = "KeyError"]
                 ELSE [lh EXCEPT !.event = event, !.pc = "token", !.pre = refs,
                                 !.missing = missing]
        /\ UNCHANGED <<gitVars, lifeVars, cb, rd, tmpl, rp, rq>>

\* input_data = event["body"]; input_data["project_name"];
\* input_data["eks_settings"]; if not project_name: return 400
lh_invoke ==
    \E event \in Events, missing \in RequiredParams \cup {"none"} :
        /\ lh.pc = "idle"
        /\ lh' = IF event \in {"no_body", "no_name", "no_settings"}
                 THEN [lh EXCEPT !.event = event, !.pc = "done", !.missing = missing,
                                 !.outcome = "raised", !.error = "KeyError"]
                 ELSE IF event = "empty_name"
                 THEN [lh EXCEPT !.event = event, !.pc = "done", !.missing = missing,
                                 !.outcome = "response", !.status = 400,
                                 !.error = "missing_name"]
                 ELSE [lh EXCEPT !.event = event, !.pc = "token", !.pre = refs,
                                 !.missing = missing]
        /\ UNCHANGED <<gitVars, lifeVars, cb, rd, tmpl, rp, rq>>

\* token = github_token(): the secret store's error is raised
lh_github_token(fault) ==
    /\ lh.pc = "token"
    /\ LET l == [lh EXCEPT !.secretCalls = @ + 1] IN
        lh' = IF fault THEN lh_on_exception(l, "secret") ELSE [l EXCEPT !.pc = "workdir"]
    /\ UNCHANGED <<gitVars, lifeVars, cb, rd, tmpl, rp, rq>>

\* a work directory that is only made sure to exist: what it holds stays
lh_work_dir_kept(fault) ==
    /\ lh.pc = "workdir"
    /\ ~fault
    /\ lh' = [lh EXCEPT !.pc = "template", !.existed = lh.work # EmptyTree]
    /\ UNCHANGED <<gitVars, lifeVars, cb, rd, tmpl, rp, rq>>

\* work_dir = f"/tmp/{new_repo_name}"; if os.path.exists(work_dir):
\* shutil.rmtree(work_dir, ignore_errors=False, onerror=remove_readonly);
\* os.makedirs(work_dir, exist_ok=True): a removal that fails raises
lh_work_dir(fault) ==
    /\ lh.pc = "workdir"
    /\ fault => lh.work # EmptyTree
    /\ lh' = IF fault THEN lh_on_exception(lh, "os_error")
             ELSE [lh EXCEPT !.pc = "template", !.work = EmptyTree,
                             !.existed = lh.work # EmptyTree]
    /\ UNCHANGED <<gitVars, lifeVars, cb, rd, tmpl, rp, rq>>

\* a lookup whose failure is passed over
lh_template_ignored(status) == FALSE

\* get_repository(template_repo_name): every status other than 200 raises
lh_template_fatal(status) == status # 200

\* os.environ.get of GITHUB_API and GITHUB_ORG_NAME (None when unset) and of
\* TEMPLATE_REPO_NAME (default "template-eks-cluster"), none of them checked;
\* orig_repo = github.get_repository(template_repo_name): without GITHUB_API
\* the URL has no scheme and requests refuses it, without GITHUB_ORG_NAME it
\* names the organisation "None"; then
\* github.get_repository(new_repo_name, create=True) begins
lh_get_template(fault) ==
    /\ lh.pc = "template"
    /\ LET status == RemoteStatus(tmpl.exists /\ lh.missing # "GITHUB_ORG_NAME", fault) IN
        IF lh.missing = "GITHUB_API"
        THEN /\ lh' = lh_on_exception(lh, "request_error")
             /\ UNCHANGED gr
        ELSE IF lh_template_fatal(status)
        THEN /\ lh' = lh_on_exception(lh, "not_found")
             /\ UNCHANGED gr
        ELSE /\ lh' = [lh EXCEPT !.pc = "target", !.calls = @ + 1]
             /\ gr' = [GIdle EXCEPT !.impl = "eks", !.pc = "get", !.name = "proj",
                                    !.create = TRUE, !.call = 1,
                                    !.existed = org["proj"].exists]
    /\ UNCHANGED <<gitVars, org, cb, rd, tmpl, rp, rq>>

\* another invocation's POST /orgs/{org}/repos for the same name is answered
\* between this invocation's lookup and its own POST
other_invocation_creates ==
    \E d \in Branches :
        /\ lh.pc = "target"
        /\ gr.pc = "post"
        /\ ~org[gr.name].exists
        /\ org' = RemoteCreate(gr.name, d, TRUE)
        /\ lh' = [lh EXCEPT !.collided = TRUE]
        /\ UNCHANGED <<gitVars, gr, cb, rd, tmpl, rp, rq>>

\* get_repository has ended: new_repo is bound, or its exception reaches the
\* handler; a repository just created shows its initial commit
lh_target_done ==
    /\ lh.pc = "target"
    /\ gr.pc = "done"
    /\ LET l == [lh EXCEPT !.posts = gr.callPosts, !.created = gr.created] IN
        lh' = IF gr.outcome = "returned" THEN [l EXCEPT !.pc = "clone"]
              ELSE lh_on_exception(l, gr.error)
    /\ gr' = GIdle
    /\ refs' = IF lh.collided \/ gr.created
               THEN [b \in Branches |-> IF RemoteBranchExists("proj", b) THEN 1 ELSE 0]
               ELSE refs
    /\ defaultBranch' = org["proj"].default_branch
    /\ UNCHANGED <<commits, wr, cloned, nWrites, org, cb, rd, tmpl, rp, rq>>

\* the directory after the downloaded files are written into it: open(path,
\* "wb") replaces a file of the same path and leaves every other file
written_over(dir, files) ==
    [p \in Paths |-> IF files[p] # NoFile THEN files[p] ELSE dir[p]]

\* github.clone_repository_contents(template_repo_name, work_dir), then
\* json.dump(eks_settings) into work_dir/config.json
lh_clone(f) ==
    /\ lh.pc = "clone"
    /\ LET c == eks_clone_of(tmpl, NoBranch, f) IN
        lh' = IF c.raised
              THEN lh_on_exception([lh EXCEPT !.copyFailed = TRUE], "tree")
              ELSE [lh EXCEPT !.pc = "write",
                              !.work = [written_over(lh.work, c.files)
                                            EXCEPT ![PathConfig] = ConfigBytes]]
    /\ UNCHANGED <<gitVars, lifeVars, cb, rd, tmpl, rp, rq>>

\* github.commit_repository_contents(new_repo_name, work_dir, message, branch="main")
lh_commit_begin ==
    /\ lh.pc = "write"
    /\ wr.pc = "idle"
    /\ eks_commit_start("main", lh.work)

\* the requests of commit_repository_contents once it has begun with a branch
eks_commit_steps ==
    \/ \E p \in Paths, ok \in BOOLEAN : eks_create_blob(p, ok)
    \/ \E ok \in BOOLEAN : eks_base_reference(ok)
    \/ \E ok \in BOOLEAN : eks_base_commit(ok)
    \/ \E ok \in BOOLEAN : eks_create_tree(ok)
    \/ \E ok \in BOOLEAN : eks_create_commit(ok)
    \/ \E ok \in BOOLEAN : eks_update_reference(ok)
    \/ \E ok \in BOOLEAN : eks_create_reference(ok)

\* commit_repository_contents has ended: return statusCode 200, or its
\* exception reaches the handler
lh_commit_done ==
    /\ lh.pc = "write"
    /\ wr.pc \in {"done", "failed"}
    /\ lh' = IF wr.pc = "done"
             THEN [lh EXCEPT !.pc = "done", !.outcome = "response", !.status = 200,
                             !.branch = wr.ret]
             ELSE lh_on_exception([lh EXCEPT !.copyFailed = TRUE], "commit")
    /\ UNCHANGED <<gitVars, lifeVars, cb, rd, tmpl, rp, rq>>

\* what /tmp/{new_repo_name} holds when the invocation begins: nothing, or
\* the files an earlier invocation for the same name left in the container
WorkDirs ==
    {EmptyTree,
     [EmptyTree EXCEPT ![PathA] = Bytes2, ![PathB] = Bytes2, ![PathConfig] = Bytes1]}

\* the project repository as found: absent, empty, or with its default branch
\* at one of the two commits; the template: absent, without commits, or with
\* the tree of commit 3 on its default branch; the work directory: absent or
\* left by an earlier invocation
InitHandler ==
    /\ commits = << Commit(Tree1, <<>>), Commit(Tree2, <<1>>) >>
    /\ \E d \in Branches, r \in {"absent", "empty", "ready"} :
        /\ org = [n \in RepoNames |->
                    IF n = "proj" /\ r # "absent" THEN Repository(d, r = "ready")
                    ELSE NoRepository]
        /\ defaultBranch = IF r = "absent" THEN "main" ELSE d
        /\ refs \in [Branches -> 0..2]
        /\ \A b \in Branches : r # "ready" => refs[b] = 0
        /\ r = "ready" => refs[d] # 0
    /\ tmpl \in {NoTemplate}
          \cup {Template(d, [b \in Branches |-> EmptyTree]) : d \in Branches}
          \cup {Template(d, [b \in Branches |-> IF b = d THEN Tree3 ELSE EmptyTree]) :
                  d \in Branches}
    /\ wr = WIdle
    /\ cloned = NoClone
    /\ nWrites = 0
    /\ gr = GIdle
    /\ cb = BIdle
    /\ rd = NoRead
    /\ \E left \in WorkDirs : lh = [LIdle EXCEPT !.work = left]
    /\ rp = RIdle
    /\ rq = NoRequest

NextHandler ==
    \/ lh_invoke
    \/ \E fault \in BOOLEAN : lh_github_token(fault)
    \/ \E fault \in BOOLEAN : lh_work_dir(fault)
    \/ \E fault \in BOOLEAN : lh_get_template(fault)
    \/ eks_get_repository
    \/ remote_materialise
    \/ other_invocation_creates
    \/ lh_target_done
    \/ \E f \in ReadFaults : lh_clone(f)
    \/ lh_commit_begin
    \/ eks_commit_steps
    \/ lh_commit_done

SpecHandler == InitHandler /\ [][NextHandler]_vars

\* the invocation reported success
Replicated == lh.pc = "done" /\ lh.outcome = "response" /\ lh.status = 200
\* the tree of the template: the head of its default branch
TemplateTree == tmpl.heads[tmpl.default_branch]

\* C22: after a replication that reported success the new repository's default
\* branch holds every path of the template with the template's content.
C22_TemplatePathsReplicated ==
    Replicated =>
        \A p \in FilesOf(TemplateTree) : BranchTree(defaultBranch)[p] = TemplateTree[p]

\* the invocation has ended
Ended == lh.pc = "done"

\* C23: when reading the template tree or writing it into the target fails,
\* the failure is logged, the handler goes on and reports success.
C23_CopyFailureNotFatal == (Ended /\ lh.copyFailed) => Replicated

\* some request about the project repository has been issued
TargetTouched == gr # GIdle \/ wr # WIdle \/ lh.calls > 0 \/ nWrites > 0

\* C24: the template repository is resolved before the target is touched: when
\* it does not exist the invocation ends with an error reported to the caller
\* and no request that creates or modifies the project repository is issued.
C24_TemplateResolvedFirst ==
    /\ TargetTouched => tmpl.exists
    /\ (~tmpl.exists /\ lh.event = "ok") => refs = lh.pre
    /\ (Ended /\ lh.event = "ok" /\ ~tmpl.exists) =>
          /\ lh.outcome = "response"
          /\ lh.status = 400
          /\ lh.error \in {"not_found", "request_error", "secret", "os_error"}
          /\ ~lh.created
          /\ lh.posts = 0

C24_Witness ==
    /\ Ended /\ lh.event = "ok" /\ ~tmpl.exists
    /\ lh.error = "not_found"
    /\ ~org["proj"].exists

\* C27: for every input document lambda_handler returns a response instead of
\* raising: 200 exactly when the replication completed, 400 or 500 otherwise.
C27_AlwaysResponds ==
    Ended =>
        /\ lh.outcome = "response"
        /\ lh.status \in {200, 400, 500}
        /\ lh.status = 200 <=> wr.pc = "done"

\* C28: an invocation whose create request collides with another invocation's
\* creation of the same name ends in a handled outcome; no exception escapes.
C28_CollisionHandled ==
    (Ended /\ lh.collided) =>
        /\ lh.outcome = "response"
        /\ lh.status = 400
        /\ lh.error = "create_failed"
        /\ lh.posts = 1
        /\ ~lh.created

C28_Witness ==
    /\ Ended /\ lh.collided
    /\ lh.status = 400
    /\ org["proj"].exists

\* ===================================== template_automation: the replication
\* The client calls are those of github_client.py ("gh") and app.py ("pyg");
\* the routine that composes them follows section 4.5 of the specification.
\* the branch the configuration file is written to
FeatureBranch == "init"

\* the answers of POST pulls and of the workflow dispatch
PullStatuses == {201, 422, 500}
DispatchStatuses == {204, 404, 500}

\* a client call's end: returned, or raised with the HTTP status
Returned == [raised |-> FALSE, status |-> 0]
RaisedWith(status) == [raised |-> TRUE, status |-> status]

\* a request with the two branches exchanged
gh_pull_request_swapped(head_branch, base_branch) ==
    [head |-> base_branch, base |-> head_branch]

\* the pull request asked for: POST pulls {head, base}
gh_pull_request(head_branch, base_branch) ==
    [head |-> head_branch, base |-> base_branch]

\* repo.create_pull(head=head_branch, base=base_branch)
pyg_pull_request(head_branch, base_branch) ==
    [head |-> head_branch, base |-> base_branch]

\* create_pull_request: the error of the request is raised
gh_create_pull_request(status) ==
    IF status >= 400 THEN RaisedWith(status) ELSE Returned

\* except GithubException: logged and raised
pyg_create_pull_request(status) ==
    IF status >= 400 THEN RaisedWith(status) ELSE Returned

\* a dispatch whose error is raised anew without its status
gh_trigger_workflow_wrapped(status) ==
    IF status >= 400 THEN RaisedWith(0) ELSE Returned

\* trigger_workflow: POST actions/workflows/{id}/dispatches through _request
gh_trigger_workflow(status) ==
    IF status >= 400 THEN RaisedWith(status) ELSE Returned

\* get_workflow and create_dispatch; the GithubException is logged and raised
pyg_trigger_workflow(status) ==
    IF status >= 400 THEN RaisedWith(status) ELSE Returned

\* replicate(project_name, template_settings, trigger_init_workflow) begins
replicate_call ==
    \E impl \in {"gh", "pyg"}, trigger \in BOOLEAN :
        /\ rp.pc = "idle"
        /\ rp' = [RIdle EXCEPT !.impl = impl, !.trigger = trigger, !.pc = "template"]
        /\ UNCHANGED <<gitVars, lifeVars, cb, rd, lh, tmpl, rq>>

\* an error that aborts the invocation
Fatal(r, error) == [r EXCEPT !.pc = "done", !.outcome = "error", !.error = error]

\* a step that issues requests of the given kind
Logged(r, kind) == [r EXCEPT !.log = Append(@, kind)]

\* step 1: resolve the template repository; step 2: get_or_create the project
rp_resolve_template(ok) ==
    /\ rp.pc = "template"
    /\ rp' = IF ok THEN [rp EXCEPT !.pc = "repo"] ELSE Fatal(rp, "not_found")
    /\ UNCHANGED <<gitVars, lifeVars, cb, rd, lh, tmpl, rq>>

rp_get_or_create(ok) ==
    /\ rp.pc = "repo"
    /\ rp' = IF ok THEN [Logged(rp, "repo") EXCEPT !.pc = "default"]
             ELSE Fatal(Logged(rp, "repo"), "repository")
    /\ UNCHANGED <<gitVars, lifeVars, cb, rd, lh, tmpl, rq>>

\* step 3: the initialized default branch, fatal when absent
rp_default_branch(d) ==
    /\ rp.pc = "default"
    /\ rp' = IF d # NoBranch THEN [rp EXCEPT !.pc = "copy", !.default = d]
             ELSE Fatal(rp, "no_default_branch")
    /\ UNCHANGED <<gitVars, lifeVars, cb, rd, lh, tmpl, rq>>

\* step 4: read_tree and write_tree; a failure is logged and passed over
rp_copy(ok) ==
    /\ rp.pc = "copy"
    /\ rp' = [Logged(rp, "copy") EXCEPT !.pc = "branch", !.copied = ok,
                                        !.warned = @ \/ ~ok]
    /\ UNCHANGED <<gitVars, lifeVars, cb, rd, lh, tmpl, rq>>

\* step 5: the feature branch; step 6: the configuration file on it;
\* step 7: the topics
rp_create_branch(ok) ==
    /\ rp.pc = "branch"
    /\ rp' = IF ok THEN [Logged(rp, "branch") EXCEPT !.pc = "config"]
             ELSE Fatal(Logged(rp, "branch"), "branch")
    /\ UNCHANGED <<gitVars, lifeVars, cb, rd, lh, tmpl, rq>>

rp_write_config(ok) ==
    /\ rp.pc = "config"
    /\ rp' = IF ok THEN [Logged(rp, "config") EXCEPT !.pc = "topics"]
             ELSE Fatal(Logged(rp, "config"), "config")
    /\ UNCHANGED <<gitVars, lifeVars, cb, rd, lh, tmpl, rq>>

rp_topics(ok) ==
    /\ rp.pc = "topics"
    /\ rp' = IF ok THEN [Logged(rp, "topics") EXCEPT !.pc = "pull"]
             ELSE Fatal(Logged(rp, "topics"), "topics")
    /\ UNCHANGED <<gitVars, lifeVars, cb, rd, lh, tmpl, rq>>

\* step 8: create_pull_request(repo, title, body, head_branch, base_branch)
rp_pull_request(status) ==
    /\ rp.pc = "pull"
    /\ LET pr == IF rp.impl = "gh" THEN gh_pull_request(FeatureBranch, rp.default)
                 ELSE pyg_pull_request(FeatureBranch, rp.default)
           end == IF rp.impl = "gh" THEN gh_create_pull_request(status)
                  ELSE pyg_create_pull_request(status)
       IN rp' = IF end.raised THEN Fatal(Logged(rp, "pull"), "pull_request")
                ELSE [Logged(rp, "pull") EXCEPT
                         !.pulls = Append(@, pr), !.pr_url = TRUE,
                         !.pc = IF rp.trigger THEN "dispatch" ELSE "return"]
    /\ UNCHANGED <<gitVars, lifeVars, cb, rd, lh, tmpl, rq>>

\* step 9: trigger_workflow on the feature branch; its 404 is logged and
\* swallowed, any other error aborts
rp_dispatch(status) ==
    /\ rp.pc = "dispatch"
    /\ LET end == IF rp.impl = "gh" THEN gh_trigger_workflow(status)
                  ELSE pyg_trigger_workflow(status)
           r == [Logged(rp, "dispatch") EXCEPT !.dispatch = status]
       IN rp' = IF ~end.raised THEN [r EXCEPT !.pc = "return", !.dispatched = TRUE]
                ELSE IF end.status = 404 THEN [r EXCEPT !.pc = "return", !.warned = TRUE]
                ELSE Fatal(r, "dispatch")
    /\ UNCHANGED <<gitVars, lifeVars, cb, rd, lh, tmpl, rq>>

\* step 10: the repository URL and the pull-request URL
rp_return ==
    /\ rp.pc = "return"
    /\ rp' = [rp EXCEPT !.pc = "done", !.outcome = "success"]
    /\ UNCHANGED <<gitVars, lifeVars, cb, rd, lh, tmpl, rq>>

InitReplicate ==
    /\ commits = << Commit(Tree1, <<>>), Commit(Tree2, <<1>>) >>
    /\ refs = [b \in Branches |-> 0]
    /\ defaultBranch = "main"
    /\ wr = WIdle
    /\ cloned = NoClone
    /\ nWrites = 0
    /\ org = [n \in RepoNames |-> NoRepository]
    /\ gr = GIdle
    /\ cb = BIdle
    /\ rd = NoRead
    /\ lh = LIdle
    /\ tmpl = NoTemplate
    /\ rp = RIdle
    /\ rq = NoRequest

NextReplicate ==
    \/ replicate_call
    \/ \E ok \in BOOLEAN : rp_resolve_template(ok)
    \/ \E ok \in BOOLEAN : rp_get_or_create(ok)
    \/ \E d \in Branches \cup {NoBranch} : rp_default_branch(d)
    \/ \E ok \in BOOLEAN : rp_copy(ok)
    \/ \E ok \in BOOLEAN : rp_create_branch(ok)
    \/ \E ok \in BOOLEAN : rp_write_config(ok)
    \/ \E ok \in BOOLEAN : rp_topics(ok)
    \/ \E status \in PullStatuses : rp_pull_request(status)
    \/ \E status \in DispatchStatuses : rp_dispatch(status)
    \/ rp_return

SpecReplicate == InitReplicate /\ [][NextReplicate]_vars

\* the dispatch of a replication with trigger_init_workflow was answered 404
Dispatch404 == rp.trigger /\ rp.dispatch = 404

\* C25: with trigger_init_workflow set, a workflow dispatch answered 404 is
\* not raised: the replication still returns success with the pull-request URL.
C25_Dispatch404Swallowed ==
    Dispatch404 =>
        /\ rp.pc \in {"return", "done"}
        /\ rp.pc = "done" => rp.outcome = "success"
        /\ rp.pr_url
        /\ rp.warned
        /\ ~rp.dispatched

C25_Witness == Dispatch404 /\ rp.pc = "done" /\ rp.outcome = "success" /\ rp.pr_url

\* the positions of a kind of request in the log
At(kind) == {k \in 1..Len(rp.log) : rp.log[k] = kind}

\* C26: one invocation creates exactly one pull request, head the feature
\* branch and base the default branch, after the feature branch was created
\* and the configuration file written; nothing later modifies it.
C26_OnePullRequest ==
    /\ Len(rp.pulls) <= 1
    /\ Cardinality(At("pull")) <= 1
    /\ (rp.pc = "done" /\ rp.outcome = "success") =>
          /\ Len(rp.pulls) = 1
          /\ rp.pulls[1] = [head |-> FeatureBranch, base |-> rp.default]
    /\ \A k \in At("pull") :
          /\ \E i \in At("branch") : i < k
          /\ \E j \in At("config") : \E i \in At("branch") : i < j /\ j < k
          /\ \A n \in (k + 1)..Len(rp.log) : rp.log[n] = "dispatch"

C26_Witness ==
    /\ rp.pc = "done" /\ rp.outcome = "success"
    /\ Len(rp.pulls) = 1
    /\ rp.default = "dev"
    /\ rp.dispatched

\* ================================================== two interleaved writes
\* One write is followed request by request; the other is seen through the one
\* request of it that the first can observe: its reference update, or its
\* creation of the reference, with a commit of its own.
RaceTrees == {t \in InputTrees : \A p \in Paths : p # PathA => t[p] = NoFile}
OtherTree == [EmptyTree EXCEPT ![PathB] = Bytes1]

race_start ==
    \E b \in Branches, f \in RaceTrees :
        \/ eks_commit_start(b, f)
        \/ f \in pyg_changes /\ pyg_commit_start(b, f)

\* the requests of create_commit once it has begun
pyg_commit_steps ==
    \/ \E ok \in BOOLEAN : pyg_get_repo(ok)
    \/ \E ok \in BOOLEAN : pyg_get_git_ref(ok)
    \/ \E ok \in BOOLEAN : pyg_get_git_tree(ok)
    \/ \E ok \in BOOLEAN : pyg_create_git_tree(ok)
    \/ \E ok \in BOOLEAN : pyg_get_git_commit(ok)
    \/ \E ok \in BOOLEAN : pyg_create_git_commit(ok)
    \/ \E ok \in BOOLEAN : pyg_ref_edit(ok)

\* the other write's last step on the same branch: PATCH with force when the
\* reference exists, POST git/refs when it does not
other_write_lands ==
    /\ wr.op \in {"eks", "pyg"}
    /\ wr.other = 0
    /\ Len(commits) < MaxCommits
    /\ commits' = Append(commits,
                         Commit(OtherTree, IF refs[wr.target] # 0
                                           THEN <<refs[wr.target]>> ELSE <<>>))
    /\ refs' = [refs EXCEPT ![wr.target] = Len(commits) + 1]
    /\ wr' = [wr EXCEPT !.other = Len(commits) + 1,
                        !.otherAfter = wr.nRefChanges > 0]
    /\ UNCHANGED <<defaultBranch, lifeVars, opVars, cloned, nWrites>>

NextRace ==
    \/ race_start
    \/ eks_commit_steps
    \/ pyg_commit_steps
    \/ other_write_lands

SpecRace == Init /\ [][NextRace]_vars

\* a write that ended, interleaved with another, no request failed by the
\* service, on a branch it could read
RaceEnded ==
    /\ wr.pc \in {"done", "failed"}
    /\ wr.other # 0
    /\ NoFaults
    /\ wr.op = "pyg" => wr.baseSha # 0

\* C29: of two interleaved writes to one branch neither fails because of the
\* other, and the branch ends at the commit of the reference update applied last.
C29_ForcedUpdateWins ==
    RaceEnded =>
        /\ wr.pc = "done"
        /\ refs[wr.target] = IF wr.otherAfter THEN wr.other ELSE wr.newCommit

\* ================================== template_automation/github_client: _request
\* the statuses a response can carry, and 0 for a request that got no response
Statuses == (200..226) \cup (300..308) \cup (400..451) \cup (500..511)
NoResponse == 0
\* response.text: empty, a JSON document, or text that is not JSON
Bodies == {"empty", "json", "text"}

\* response.raise_for_status(): HTTPError for the statuses 400 to 599
raise_for_status(status) == status >= 400 /\ status < 600

\* a _request that parses every body
gh_request_parsing(status, body) ==
    IF status = NoResponse \/ raise_for_status(status)
    THEN [set |-> TRUE, status |-> status, body |-> body, outcome |-> "raised",
          result |-> "none", error |-> status]
    ELSE [set |-> TRUE, status |-> status, body |-> body,
          outcome |-> IF body = "json" THEN "returned" ELSE "parse_failure",
          result |-> IF body = "json" THEN "document" ELSE "none",
          error |-> 0]

\* _request(method, url): the error of the request is logged and raised; a
\* body is parsed as JSON, kept as raw_content when it is not JSON, and an
\* empty body gives {}
gh_request(status, body) ==
    IF status = NoResponse \/ raise_for_status(status)
    THEN [set |-> TRUE, status |-> status, body |-> body, outcome |-> "raised",
          result |-> "none", error |-> status]
    ELSE [set |-> TRUE, status |-> status, body |-> body, outcome |-> "returned",
          result |-> IF body = "empty" THEN "empty"
                     ELSE IF body = "json" THEN "document"
                     ELSE "raw_content",
          error |-> 0]

\* one call of _request and the response it meets
gh_request_call ==
    \E status \in Statuses \cup {NoResponse}, body \in Bodies :
        /\ status = NoResponse => body = "empty"
        /\ rq' = gh_request(status, body)
        /\ UNCHANGED <<gitVars, lifeVars, cb, rd, lh, tmpl, rp>>

NextRequest == gh_request_call

SpecRequest == InitReplicate /\ [][NextRequest]_vars

\* a call that met a response
Answered == rq.set /\ rq.status # NoResponse
Is2xx(status) == status >= 200 /\ status < 300

\* C30 as claimed: a result is returned only for a 2xx response, every other
\* response raises an error carrying its status, and a 2xx response with an
\* empty body yields an empty result.
C30_ResultOnlyFor2xx ==
    Answered =>
        /\ rq.outcome = "returned" <=> Is2xx(rq.status)
        /\ ~Is2xx(rq.status) => (rq.outcome = "raised" /\ rq.error = rq.status)
        /\ (Is2xx(rq.status) /\ rq.body = "empty") => rq.result = "empty"

\* C30 as amended: a result is returned for every response with a status below
\* 400, every response with a status of 400 or more raises an error carrying
\* its status, and an empty body yields an empty result, never a parse failure.
C30_ResultBelow400 ==
    Answered =>
        /\ rq.outcome \in {"returned", "raised"}
        /\ rq.outcome = "returned" <=> rq.status < 400
        /\ rq.status >= 400 => (rq.outcome = "raised" /\ rq.error = rq.status)
        /\ (rq.status < 400 /\ rq.body = "empty") => rq.result = "empty"
        /\ Is2xx(rq.status) => rq.outcome = "returned"

C30_Witness ==
    /\ Answered /\ rq.status = 204 /\ rq.body = "empty"
    /\ rq.outcome = "returned" /\ rq.result = "empty"

\* ================================================ single-attempt operations
\* the operations of github_client.py that are a fixed list of _request calls
ClientOps ==
    {"create_branch", "create_reference", "update_reference",
     "create_pull_request", "update_repository_topics", "trigger_workflow"}

\* no operation running; sent is the list of HTTP requests transmitted
NoCall ==
    [op |-> "none", pc |-> "idle", calls |-> 0, sent |-> <<>>, outcome |-> "none",
     error |-> 0]

\* the _request calls an operation makes, in the order of its body
gh_requests_of(op) ==
    CASE op = "create_branch" -> << "GET branches", "POST git/refs" >>
      [] op = "create_reference" -> << "POST git/refs" >>
      [] op = "update_reference" -> << "PATCH git/refs" >>
      [] op = "create_pull_request" -> << "POST pulls" >>
      [] op = "update_repository_topics" -> << "PUT topics" >>
      [] op = "trigger_workflow" -> << "POST dispatches" >>

\* a transport that sends a request again when the answer is a server error
gh_session_request_resending(sent, url, status) ==
    IF status >= 500 THEN sent \o << [url |-> url, status |-> status],
                                     [url |-> url, status |-> status] >>
    ELSE Append(sent, [url |-> url, status |-> status])

\* response = self.session.request(method, url, **kwargs): one transmission,
\* the session has no retrying adapter mounted
gh_session_request(sent, url, status) == Append(sent, [url |-> url, status |-> status])

\* an operation of ClientOps is called
gh_client_call ==
    \E op \in ClientOps :
        /\ rq.pc \in {"idle", "done"}
        /\ rq' = [NoCall EXCEPT !.op = op, !.pc = "request"]
        /\ UNCHANGED <<gitVars, lifeVars, cb, rd, lh, tmpl, rp>>

\* the next _request of the running operation and the response it meets: an
\* error raised by _request leaves the operation at once, a result moves it
\* to its next statement; create_pull_request then reads pr['number']
gh_client_request ==
    \E status \in Statuses \cup {NoResponse}, body \in Bodies :
        /\ rq.pc = "request"
        /\ status = NoResponse => body = "empty"
        /\ LET todo == gh_requests_of(rq.op)
               got == gh_request(status, body)
               sent == gh_session_request(rq.sent, todo[rq.calls + 1], status)
           IN rq' = IF got.outcome = "raised"
                    THEN [rq EXCEPT !.sent = sent, !.pc = "done",
                                    !.outcome = "raised", !.error = status]
                    ELSE IF rq.calls + 1 < Len(todo)
                    THEN [rq EXCEPT !.sent = sent, !.calls = @ + 1]
                    ELSE [rq EXCEPT !.sent = sent, !.calls = @ + 1, !.pc = "done",
                                    !.outcome =
                                        IF rq.op = "create_pull_request"
                                           /\ got.result # "document"
                                        THEN "key_error" ELSE "returned"]
        /\ UNCHANGED <<gitVars, lifeVars, cb, rd, lh, tmpl, rp>>

InitCalls ==
    /\ commits = << Commit(Tree1, <<>>), Commit(Tree2, <<1>>) >>
    /\ refs = [b \in Branches |-> 0]
    /\ defaultBranch = "main"
    /\ wr = WIdle
    /\ cloned = NoClone
    /\ nWrites = 0
    /\ org = [n \in RepoNames |-> NoRepository]
    /\ gr = GIdle
    /\ cb = BIdle
    /\ rd = NoRead
    /\ lh = LIdle
    /\ tmpl = NoTemplate
    /\ rp = RIdle
    /\ rq = NoCall

NextCalls ==
    \/ gh_client_call
    \/ gh_client_request

SpecCalls == InitCalls /\ [][NextCalls]_vars

\* the response is an error: no response at all, or a status raise_for_status
\* raises for
ErrorResponse(status) == status = NoResponse \/ raise_for_status(status)

\* C31: every operation of ClientOps transmits each of its requests at most
\* once, in the order of its body, and the first error response ends it: that
\* response is the last request sent and the operation raises with its status.
C31_SingleAttempt ==
    rq.op # "none" =>
        LET todo == gh_requests_of(rq.op) IN
        /\ Len(rq.sent) <= Len(todo)
        /\ \A i \in 1..Len(rq.sent) :
            /\ rq.sent[i].url = todo[i]
            /\ ErrorResponse(rq.sent[i].status) =>
                /\ i = Len(rq.sent)
                /\ rq.pc = "done" /\ rq.outcome = "raised"
                /\ rq.error = rq.sent[i].status
        /\ rq.outcome = "raised" => Len(rq.sent) >= 1 /\ ErrorResponse(rq.sent[Len(rq.sent)].status)

\* create_branch whose POST met a 503: two requests sent, the 503 raised
C31_Witness ==
    /\ rq.op = "create_branch" /\ rq.pc = "done"
    /\ Len(rq.sent) = 2
    /\ rq.sent[2].status = 503
    /\ rq.outcome = "raised" /\ rq.error = 503

\* ================================================== write_file / read_file
MaxFileWrites == 2

\* str values as sequences of code points: empty, ASCII, two-, three- and
\* four-byte characters, a text of two base64 groups, and a lone surrogate
Texts ==
    {<<>>, <<233>>, <<8364>>, <<128512>>, <<77, 97, 110, 33>>, <<56448>>}
\* the paths written and read: a file and the directory of PathGit
FilePaths == {PathA, <<".git">>}

\* str.encode("utf-8"); a surrogate code point is refused (UnicodeEncodeError)
IsSurrogate(c) == c >= 55296 /\ c <= 57343
RECURSIVE utf8_encode(_)
utf8_encode(s) ==
    IF Len(s) = 0 THEN <<>>
    ELSE LET c == s[1] IN
         (IF c < 128 THEN << c >>
          ELSE IF c < 2048 THEN << 192 + (c \div 64), 128 + (c % 64) >>
          ELSE IF c < 65536 THEN
              << 224 + (c \div 4096), 128 + ((c \div 64) % 64), 128 + (c % 64) >>
          ELSE << 240 + (c \div 262144), 128 + ((c \div 4096) % 64),
                  128 + ((c \div 64) % 64), 128 + (c % 64) >>)
         \o utf8_encode(Tail(s))

\* bytes.decode("utf-8") of bytes that are valid UTF-8
RECURSIVE utf8_decode(_)
utf8_decode(b) ==
    IF Len(b) = 0 THEN <<>>
    ELSE IF b[1] < 128 THEN << b[1] >> \o utf8_decode(Tail(b))
    ELSE IF b[1] < 224 THEN
        << (b[1] - 192) * 64 + (b[2] - 128) >> \o utf8_decode(SubSeq(b, 3, Len(b)))
    ELSE IF b[1] < 240 THEN
        << (b[1] - 224) * 4096 + (b[2] - 128) * 64 + (b[3] - 128) >>
        \o utf8_decode(SubSeq(b, 4, Len(b)))
    ELSE << (b[1] - 240) * 262144 + (b[2] - 128) * 4096 + (b[3] - 128) * 64
            + (b[4] - 128) >>
         \o utf8_decode(SubSeq(b, 5, Len(b)))

\* GET contents/{path}?ref={b}: 404 without the branch or the path, a listing
\* for a directory, else the file with its blob sha and its content in
\* base64 lines; a fault is answered 500
RemoteFile(b, p, fault) ==
    LET t == BranchTree(b)
        isDir == \E q \in FilesOf(t) : Len(q) > Len(p) /\ SubSeq(q, 1, Len(p)) = p
        isFile == p \in Paths /\ t[p] # NoFile
    IN IF fault THEN [status |-> 500, kind |-> "none", sha |-> NoFile, content |-> <<>>]
       ELSE IF isFile THEN [status |-> 200, kind |-> "file", sha |-> t[p],
                            content |-> RemoteBlobContent(t[p])]
       ELSE IF isDir THEN [status |-> 200, kind |-> "dir", sha |-> NoFile, content |-> <<>>]
       ELSE [status |-> 404, kind |-> "none", sha |-> NoFile, content |-> <<>>]

\* PUT contents/{path}: 404 without the branch, 422 for a path under .git, for
\* a directory and for a file when no sha is given, 409 when the sha is not
\* the file's blob
RemotePutStatus(b, p, sha, fault) ==
    LET found == RemoteFile(b, p, FALSE) IN
    IF fault # 0 THEN fault
    ELSE IF refs[b] = 0 THEN 404
    ELSE IF p[1] = ".git" \/ found.kind = "dir" THEN 422
    ELSE IF found.kind = "file" THEN
        (IF sha = NoFile THEN 422 ELSE IF sha = found.sha THEN 200 ELSE 409)
    ELSE IF sha = NoFile THEN 201 ELSE 409

\* no file operation yet; written is the text of the last successful
\* write_file of each branch and path
NoWritten == <<-3>>
NoFileCall ==
    [op |-> "none", pc |-> "idle", path |-> <<>>, branch |-> NoBranch, text |-> <<>>,
     existed |-> FALSE, oldSha |-> NoFile, puts |-> <<>>, outcome |-> "none",
     error |-> "none", result |-> NoWritten, writes |-> 0,
     written |-> [b \in Branches |-> [p \in FilePaths |-> NoWritten]]]

\* write_file(repo, path, content, branch): the file is looked up on the
\* branch; found, it is updated with a PUT carrying its sha; a 404 of the
\* lookup or of that PUT leads to a PUT without sha; any other error is raised
gh_write_file(path, branch, content, lookup, put1, put2) ==
    /\ rq.pc \in {"idle", "done"}
    /\ rq.writes < MaxFileWrites
    /\ LET call == [NoFileCall EXCEPT
                              !.op = "write_file", !.pc = "done", !.path = path,
                              !.branch = branch, !.text = content,
                              !.writes = rq.writes + 1, !.written = rq.written,
                              !.existed = RemoteFile(branch, path, FALSE).kind = "file",
                              !.oldSha = RemoteFile(branch, path, FALSE).sha]
           content_base64 == b64encode(utf8_encode(content))
           file == RemoteFile(branch, path, lookup)
           s1 == RemotePutStatus(branch, path, file.sha, put1)
           s2 == RemotePutStatus(branch, path, NoFile, put2)
           Raised(c, e) == [c EXCEPT !.outcome = "raised", !.error = e]
           Done(c) == [c EXCEPT !.outcome = "returned",
                                !.written[branch][path] = content]
           Put(c, sha, status) ==
               [c EXCEPT !.puts = Append(@, [sha |-> sha, status |-> status])]
           commit == RemotePutCommit(branch, path, content_base64)
           create(c) ==
               /\ rq' = IF s2 < 400 THEN Done(Put(c, NoFile, s2))
                        ELSE Raised(Put(c, NoFile, s2), "HTTPError")
               /\ commits' = IF s2 < 400 THEN Append(commits, commit) ELSE commits
               /\ refs' = IF s2 < 400 THEN [refs EXCEPT ![branch] = Len(commits) + 1]
                          ELSE refs
       IN IF \E k \in 1..Len(content) : IsSurrogate(content[k])
          THEN rq' = Raised(call, "UnicodeEncodeError") /\ UNCHANGED <<refs, commits>>
          ELSE IF file.status = 200 /\ file.kind = "dir"
          THEN rq' = Raised(call, "TypeError") /\ UNCHANGED <<refs, commits>>
          ELSE IF file.status = 200
          THEN IF s1 < 400
               THEN /\ rq' = Done(Put(call, file.sha, s1))
                    /\ commits' = Append(commits, commit)
                    /\ refs' = [refs EXCEPT ![branch] = Len(commits) + 1]
               ELSE IF s1 = 404 THEN create(Put(call, file.sha, s1))
               ELSE rq' = Raised(Put(call, file.sha, s1), "HTTPError")
                    /\ UNCHANGED <<refs, commits>>
          ELSE IF file.status = 404 THEN create(call)
          ELSE rq' = Raised(call, "HTTPError") /\ UNCHANGED <<refs, commits>>
    /\ UNCHANGED <<defaultBranch, wr, cloned, nWrites, lifeVars, cb, rd, lh, tmpl, rp>>

\* a read that looks at "main" whatever ref is
gh_read_file_main(path, ref, fault) ==
    /\ rq.pc \in {"idle", "done"}
    /\ LET file == RemoteFile("main", path, fault)
           call == [NoFileCall EXCEPT
                              !.op = "read_file", !.pc = "done", !.path = path,
                              !.branch = ref, !.writes = rq.writes,
                              !.written = rq.written]
           bytes == b64decode(file.content)
       IN rq' = IF file.status # 200
                THEN [call EXCEPT !.outcome = "raised", !.error = "HTTPError"]
                ELSE IF file.kind = "dir"
                THEN [call EXCEPT !.outcome = "raised", !.error = "TypeError"]
                ELSE IF ~utf8_valid(bytes)
                THEN [call EXCEPT !.outcome = "raised", !.error = "UnicodeDecodeError"]
                ELSE [call EXCEPT !.outcome = "returned", !.result = utf8_decode(bytes)]
    /\ UNCHANGED <<gitVars, lifeVars, cb, rd, lh, tmpl, rp>>

\* read_file(repo, path, ref): get_file_contents with params ref, then
\* base64.b64decode(file["content"]).decode("utf-8")
gh_read_file(path, ref, fault) ==
    /\ rq.pc \in {"idle", "done"}
    /\ LET file == RemoteFile(ref, path, fault)
           call == [NoFileCall EXCEPT
                              !.op = "read_file", !.pc = "done", !.path = path,
                              !.branch = ref, !.writes = rq.writes,
                              !.written = rq.written]
           bytes == b64decode(file.content)
       IN rq' = IF file.status # 200
                THEN [call EXCEPT !.outcome = "raised", !.error = "HTTPError"]
                ELSE IF file.kind = "dir"
                THEN [call EXCEPT !.outcome = "raised", !.error = "TypeError"]
                ELSE IF ~utf8_valid(bytes)
                THEN [call EXCEPT !.outcome = "raised", !.error = "UnicodeDecodeError"]
                ELSE [call EXCEPT !.outcome = "returned", !.result = utf8_decode(bytes)]
    /\ UNCHANGED <<gitVars, lifeVars, cb, rd, lh, tmpl, rp>>

\* the repository as found: main and dev absent or at one of two commits, the
\* second holding a file under .git/ and a file that is not UTF-8
TreeGit == [Tree2 EXCEPT ![PathGit] = Bytes1]
InitFile ==
    /\ commits = << Commit(Tree1, <<>>), Commit(TreeGit, <<1>>) >>
    /\ refs \in [Branches -> 0..2]
    /\ defaultBranch = "main"
    /\ wr = WIdle
    /\ cloned = NoClone
    /\ nWrites = 0
    /\ org = [n \in RepoNames |-> NoRepository]
    /\ gr = GIdle
    /\ cb = BIdle
    /\ rd = NoRead
    /\ lh = LIdle
    /\ tmpl = NoTemplate
    /\ rp = RIdle
    /\ rq = NoFileCall

\* the requests of a write_file that are failed: the lookup, and the status
\* forced on the PUT with sha and on the PUT without
WriteFaults ==
    {<<FALSE, 0, 0>>, <<TRUE, 0, 0>>, <<FALSE, 404, 0>>, <<FALSE, 500, 0>>,
     <<FALSE, 404, 500>>, <<FALSE, 0, 500>>}

NextFile ==
    \/ \E path \in FilePaths, branch \in Branches, content \in Texts, f \in WriteFaults :
            gh_write_file(path, branch, content, f[1], f[2], f[3])
    \/ \E path \in FilePaths, ref \in Branches, fault \in BOOLEAN :
            gh_read_file(path, ref, fault)

SpecFile == InitFile /\ [][NextFile]_vars

\* a write_file that returned
WriteReturned == rq.op = "write_file" /\ rq.outcome = "returned"

\* C32: a write_file that returns has sent one accepted PUT, last of its
\* PUTs: with the file's sha when the file was on the branch, without sha when
\* it was not, and the branch then holds the encoded content at the path;
\* a read_file of a branch and path written by a write_file that returned, with
\* no fault in its request, returns exactly the text last written there.
C32_WriteThenRead ==
    /\ WriteReturned =>
        LET last == rq.puts[Len(rq.puts)] IN
        /\ Len(rq.puts) >= 1
        /\ last.status < 400
        /\ rq.existed => (last.sha = rq.oldSha /\ Len(rq.puts) = 1)
        /\ ~rq.existed => last.sha = NoFile
        /\ BranchTree(rq.branch)[rq.path] = utf8_encode(rq.text)
    /\ (rq.op = "read_file" /\ rq.written[rq.branch][rq.path] # NoWritten) =>
        \/ rq.outcome = "raised" /\ rq.error = "HTTPError"
        \/ rq.outcome = "returned" /\ rq.result = rq.written[rq.branch][rq.path]

\* a file already on dev is written a second time with another text, of two
\* and three byte characters, and read back
C32_Witness ==
    /\ rq.op = "read_file" /\ rq.outcome = "returned"
    /\ rq.branch = "dev" /\ rq.path = PathA
    /\ rq.writes = 2
    /\ rq.result = <<8364>>
    /\ rq.written["dev"][PathA] = <<8364>>
    /\ rq.written["main"][PathA] = NoWritten
    /\ Len(commits) = 4

\* ====================================================== set_team_permission
\* set_team_permission returned to its caller without an error
PermissionReturned == gr.perm \in {"ok", "logged"}

\* C33: when set_team_permission returns normally for a team that exists (the
\* lookup of the team was answered 200), a PUT of the permission was accepted.
C33_ReturnedImpliesGranted ==
    (PermissionReturned /\ gr.teamStatus = 200) => gr.granted

\* ================================================= update_repository_topics
\* topic names: two the service accepts and one it refuses (upper case)
TopicNames == {"a", "b", "B"}
\* the lists handed over: up to two names, in any order, repeated or not
TopicLists ==
    {<<>>} \cup {<<x>> : x \in TopicNames} \cup {<<x, y>> : x, y \in TopicNames}

\* PUT repos/{org}/{repo}/topics {"names": names}: 404 without the repository,
\* 422 for a name the service refuses, else the topics become the names given
RemoteTopicsStatus(n, names, fault) ==
    IF fault THEN 500
    ELSE IF ~org[n].exists THEN 404
    ELSE IF "B" \in Range(names) THEN 422
    ELSE 200

\* no call yet; before is the topic set the call found, repeat tells that the
\* call before it returned and had the same repository and list
NoTopicsCall ==
    [op |-> "none", impl |-> "none", name |-> "", topics |-> <<>>, outcome |-> "none",
     error |-> 0, before |-> {}, repeat |-> FALSE]

\* a client that sends the topics it was given on top of those in place
gh_update_repository_topics_adding(impl, repo_name, topics, fault) ==
    /\ LET names == topics
           status == RemoteTopicsStatus(repo_name, names, fault)
           call == [NoTopicsCall EXCEPT
                      !.op = "update_repository_topics", !.impl = impl,
                      !.name = repo_name, !.topics = topics,
                      !.before = org[repo_name].topics,
                      !.repeat = /\ rq.outcome = "returned"
                                 /\ rq.name = repo_name /\ rq.topics = topics]
       IN /\ rq' = IF status < 400 THEN [call EXCEPT !.outcome = "returned"]
                   ELSE [call EXCEPT !.outcome = "raised", !.error = status]
          /\ org' = IF status < 400
                    THEN [org EXCEPT ![repo_name].topics = @ \cup Range(names)]
                    ELSE org
    /\ UNCHANGED <<gitVars, gr, cb, rd, lh, tmpl, rp>>

\* github_client: self._request("PUT", .../topics, json={"names": topics});
\* app.py: repo = self.org.get_repo(repo_name); repo.replace_topics(topics),
\* the GithubException logged and raised.  Both send the list as it is
gh_update_repository_topics(impl, repo_name, topics, fault) ==
    /\ LET names == topics
           status == RemoteTopicsStatus(repo_name, names, fault)
           call == [NoTopicsCall EXCEPT
                      !.op = "update_repository_topics", !.impl = impl,
                      !.name = repo_name, !.topics = topics,
                      !.before = org[repo_name].topics,
                      !.repeat = /\ rq.outcome = "returned"
                                 /\ rq.name = repo_name /\ rq.topics = topics]
       IN /\ rq' = IF status < 400 THEN [call EXCEPT !.outcome = "returned"]
                   ELSE [call EXCEPT !.outcome = "raised", !.error = status]
          /\ org' = IF status < 400
                    THEN [org EXCEPT ![repo_name].topics = Range(names)]
                    ELSE org
    /\ UNCHANGED <<gitVars, gr, cb, rd, lh, tmpl, rp>>

\* the organisation as found: each repository absent, or present with any
\* set of accepted topics
InitTopics ==
    /\ commits = << Commit(Tree1, <<>>), Commit(Tree2, <<1>>) >>
    /\ refs = [b \in Branches |-> 0]
    /\ defaultBranch = "main"
    /\ wr = WIdle
    /\ cloned = NoClone
    /\ nWrites = 0
    /\ \E found \in SUBSET RepoNames, ts \in [RepoNames -> SUBSET {"a", "b"}] :
        org = [n \in RepoNames |->
                IF n \in found THEN [Repository("main", TRUE) EXCEPT !.topics = ts[n]]
                ELSE NoRepository]
    /\ gr = GIdle
    /\ cb = BIdle
    /\ rd = NoRead
    /\ lh = LIdle
    /\ tmpl = NoTemplate
    /\ rp = RIdle
    /\ rq = NoTopicsCall

NextTopics ==
    \E impl \in {"gh", "pyg"}, repo_name \in RepoNames, topics \in TopicLists,
       fault \in BOOLEAN :
        gh_update_repository_topics(impl, repo_name, topics, fault)

SpecTopics == InitTopics /\ [][NextTopics]_vars

\* C34: after update_repository_topics(repo, T) succeeds the repository's
\* topic set is the set of the names of T, whatever it was before, and when
\* the call repeats the successful call before it, with the same repository
\* and T, the topic set is the one it found.
C34_IdempotentReplace ==
    rq.outcome = "returned" =>
        /\ org[rq.name].topics = Range(rq.topics)
        /\ rq.repeat => org[rq.name].topics = rq.before

\* topics replaced by a smaller set, by a call repeated with the same list
C34_Witness ==
    /\ rq.outcome = "returned" /\ rq.repeat
    /\ rq.topics = <<"a", "a">>
    /\ rq.before = {"a"}
    /\ org[rq.name].topics = {"a"}
    /\ org["repos"].topics = {"a", "b"}

\* =================================================== placeholder README
\* a step of github_client's get_repository that leaves the part of the
\* initialization that follows an accepted README write
LeavesInitialization ==
    /\ gr.impl = "gh"
    /\ gr.pc \in {"reget", "probe"}
    /\ gr'.pc \notin {"reget", "probe"}

\* C35: get_repository sends the README write only while the default branch
\* of the created repository does not exist, and once the write was accepted
\* it does not leave the initialization without having probed for the branch.
C35_ReadmeThenProbe ==
    [][/\ (gr.impl = "gh" /\ gr'.puts > gr.puts) =>
            ~RemoteBranchExists(gr.name, gr.repo.default_branch)
       /\ LeavesInitialization => gr'.probes >= 1]_vars

\* ==================================================== required parameters
\* the error the claim expects: a ValueError whose message names the parameter
MissingParameterError(param) ==
    CASE param = "GITHUB_API" -> "ValueError: GITHUB_API"
      [] param = "GITHUB_ORG_NAME" -> "ValueError: GITHUB_ORG_NAME"
      [] param = "TEMPLATE_REPO_NAME" -> "ValueError: TEMPLATE_REPO_NAME"
      [] OTHER -> "none"

\* operate_github has run (the token was obtained) and has ended
OperateEnded == lh.pc = "done" /\ lh.event = "ok" /\ lh.error # "secret"

\* C36: when one of GITHUB_API, GITHUB_ORG_NAME, TEMPLATE_REPO_NAME is not
\* configured, operate_github ends with a ValueError naming that parameter.
C36_MissingParameterNamed ==
    (OperateEnded /\ lh.missing \in RequiredParams) =>
        lh.error = MissingParameterError(lh.missing)

\* ======================================================= creation requests
\* C37: a call of get_repository sends a creation request only when create is
\* true and its own lookup of the repository was answered 404.
C37_CreateOnlyAfterLookup404 ==
    gr.callPosts > 0 => (gr.create /\ gr.lookup = 404)

TemplatePuts == {i \in 1..Len(wr.log) : wr.log[i].m = "PUT" /\ wr.log[i].r = "file"}
\* the positions at which the target branch was looked up and found: the
\* lookups of the target come after the listing of the source tree
TargetConfirmed ==
    {j \in 1..Len(wr.log) :
        /\ wr.log[j] = Req("GET", "branch", TRUE, FALSE)
        /\ \E k \in 1..(j - 1) : wr.log[k].r = "tree"}
ReadmePuts == {k \in 1..Len(wr.log) : wr.log[k].m = "PUT" /\ wr.log[k].r = "readme"}

\* C39: in the content-API clone every write of a template file comes after a
\* lookup that found the target branch; when the placeholder README was
\* written, the lookup that found the branch comes after the README and
\* before the first template file; and a clone whose last request is a
\* failed lookup of the target branch has ended in an error with no template
\* file written
C39_BranchConfirmedBeforeFiles ==
    wr.op = "gh" =>
        /\ \A i \in TemplatePuts :
              /\ \E j \in TargetConfirmed : j < i
              /\ \A k \in ReadmePuts :
                    /\ k < i
                    /\ wr.log[k].ok
                    /\ \E j \in TargetConfirmed : k < j /\ j < i
        /\ (/\ ReadmePuts # {}
            /\ wr.log[Len(wr.log)].r = "branch"
            /\ ~wr.log[Len(wr.log)].ok)
           => (wr.pc = "failed" /\ TemplatePuts = {})
        /\ wr.pc = "files" => TargetConfirmed # {}
C39_Witness ==
    /\ wr.op = "gh" /\ wr.pc = "done"
    /\ wr.pre[wr.target] = 0
    /\ \E k \in ReadmePuts, i \in TemplatePuts : k < i /\ wr.log[i].ok
    /\ BranchTree(wr.target)[PathA] # NoFile

\* ------------------------------------------- nothing left over is committed
\* commit_repository_contents has been called by operate_github
CommitCalled == lh.pc \in {"write", "done"} /\ wr.op = "eks"

\* C40: the files operate_github hands to commit_repository_contents are the
\* settings of this invocation as config.json and, at every other path, the
\* file of the current template tree or no file: whatever the work directory
\* held when the invocation began, none of it is committed
C40_OnlyTemplateAndSettings ==
    CommitCalled =>
        /\ wr.files = lh.work
        /\ wr.files[PathConfig] = ConfigBytes
        /\ \A p \in Paths \ {PathConfig} : wr.files[p] \in {NoFile, TemplateTree[p]}
C40_Witness ==
    /\ CommitCalled /\ Replicated
    /\ lh.existed
    /\ TemplateTree[PathB] # NoFile
    /\ wr.files[PathB] = TemplateTree[PathB]
    /\ wr.files[PathConfig] = ConfigBytes

====
